---- MODULE Spec2Model ----
(***************************************************************************)
(* DeployEase blue/green traffic switching: the remote repository, the     *)
(* gitService result cache, the redirectService active-branch cache, the   *)
(* netlifyService purge/deploy calls and the request handlers built on     *)
(* them (switchTraffic, switchEnvironment, deployToBranch,                 *)
(* rollbackToCommit, getDeploymentHistory, getActiveBranch).               *)
(*                                                                         *)
(* A handler is a sequence of steps, one per awaited remote request; the   *)
(* answer of the remote service (success, or failure after the retries of  *)
(* that request) is an input of the step.                                  *)
(***************************************************************************)
EXTENDS Integers, Sequences, FiniteSets, TLC

\* ---------------------------------------------------------------- bounds
MaxCommits == 2
MaxTicks == 1
MaxConns == 2
MaxFiles == 2
MaxPending == 2

\* ------------------------------------------------------ program constants
CACHE_TTL == 300000
ACTIVE_BRANCH_TTL == 600000
HISTORY_TTL == 300000
REDIRECT_CACHE_TTL == 60000
maxRetries == 3
CACHE_TTL_EXTENDED == 1800000
CLEANUP_INTERVAL == 600000
RATE_LIMIT_THRESHOLD == 10
RATE_LIMIT_MAX_AGE == 60000
MAX_FILE_SIZE == 5242880
MAX_FILES == 100
MAX_RETRY_ATTEMPTS == 3
RETRY_DELAY_BASE == 2000
maxReconnectAttempts == 5
baseReconnectDelay == 3000
maxReconnectDelay == 30000
maxConnectionAttempts == 1

Procs == {1, 2}
SwitchProcs == {1}
Envs == {"blue", "green"}
DEFAULT_BRANCHES == {"main", "blue", "green"}
NetlifyImpls == {"deployease", "backend"}
FileSets == {"siteA", "siteB"}

\* What a GitHub request ends in: an answer, or an error once its retries are used up
GitHubAnswers == {"ok", "error"}
\* What checkRateLimit does before a request is issued
RateLimitChecks == {"pass", "throw"}
\* The Netlify API: answering, failing, or failing on the purge endpoint only
NetlifyAnswers == {"up", "down", "nopurge"}

VARIABLES
  now,            \* Date.now(), in ms
  ticks,          \* number of clock advances so far
  netlifyImpl,    \* which netlifyService module the process has loaded, "none" before require
  commits,        \* commit objects of the repository, commit id = index
  refs,           \* branch references: branch -> commit id
  cache,          \* gitService.cache
  redirectCache,  \* redirectService.redirectCache
  calls,          \* the request being served by each handler slot
  done,           \* the request that the last step completed (Idle if none)
  lastSwitch,     \* target of the last switch that returned success, "none" once anything else wrote
  lastRollback,   \* per environment: commit of the last successful rollback, 0 once a deploy moved the branch
  rateLimit,      \* gitService.rateLimit: remaining, reset (s), lastChecked (ms)
  rlPending,      \* an updateRateLimit nobody awaits is in flight
  retry,          \* the executeWithRetry call followed request by request, and how it ended
  stored,         \* per cache key: store time + TTL of the entry, as it was when the entry was written
  cleanedAt,      \* time of the last cleanupCache run
  loop,           \* the retry loop of an executeWithRetry call: attempts, invocations, the delay it waits
  wsImpl,         \* which websocketService module the process has loaded, "none" before init
  clients,        \* websocketService.clients: per connection, whether it is in the map and its isAlive flag
  sockets,        \* readyState of the socket of each connection
  probes,         \* per connection: liveness ticks and unanswered probes since its last sign of life
  lastBroadcast,  \* the broadcast the last step made (NoBroadcast if none)
  lastMessage,    \* the inbound message the last step handled and the reply it sent (NoMessage if none)
  keyed,          \* the clients map by sec-websocket-key, and the key and socket of each connection
  observer,       \* the page that watches the deployment log: its socket, timers and counters
  fileContent,        \* a _redirects file content handed to a parser
  origin,         \* the generator call that produced fileContent, if one did
  parsed,         \* the parser that was applied to fileContent and what it returned
  fileArray,         \* a file array handed to validateFiles
  checked         \* what validateFiles did with fileArray: "ok" or the error it threw, "none" before the call

\* The variables of the rate-limit handling, of the websocket service, and of
\* the request handlers
rlVars == <<rateLimit, rlPending, retry, stored, cleanedAt, loop>>
wsVars == <<wsImpl, clients, sockets, probes, lastBroadcast, lastMessage, observer, keyed>>
handlerVars == <<netlifyImpl, commits, refs, redirectCache, calls, done, lastSwitch, lastRollback>>
fnVars == <<fileContent, origin, parsed, fileArray, checked>>

vars == <<now, ticks, netlifyImpl, commits, refs, cache,
          redirectCache, calls, done, lastSwitch, lastRollback, rlVars, wsVars, fnVars>>

\* ------------------------------------------------- routing-rules content
\* A _redirects file is described by what the parsers look at: the
\* "# ACTIVE_BRANCH:" marker, the branch-deploy URLs and the /blue/ /green/ paths.

\* A gitService.generateRedirectsContent that writes the rules without the marker line
generateRedirectsContentUnmarked(activeBranch) ==
  [marker |-> "absent", blueUrl |-> FALSE, greenUrl |-> FALSE,
   bluePath |-> (activeBranch = "blue"), greenPath |-> (activeBranch = "green")]

\* gitService.generateRedirectsContent
generateRedirectsContent(activeBranch) ==
  [marker |-> activeBranch, blueUrl |-> FALSE, greenUrl |-> FALSE,
   bluePath |-> (activeBranch = "blue"), greenPath |-> (activeBranch = "green")]

generateRules(branch) ==
  [marker |-> branch, blueUrl |-> (branch = "blue"), greenUrl |-> (branch = "green"),
   bluePath |-> FALSE, greenPath |-> FALSE]

\* gitService.getActiveBranch, the parsing callback
ParseActiveBranchGit(content) ==
  IF content.marker \in Envs THEN content.marker
  ELSE IF content.blueUrl \/ content.bluePath THEN "blue"
  ELSE IF content.greenUrl \/ content.greenPath THEN "green"
  ELSE "blue"

\* redirectService.getActiveBranch, the parsing part; "none" stands for null
ParseActiveBranchRS(content) ==
  IF content.marker \in Envs THEN content.marker
  ELSE IF content.marker = "none" THEN "none"
  ELSE IF content.blueUrl /\ ~content.greenUrl THEN "blue"
  ELSE IF content.greenUrl /\ ~content.blueUrl THEN "green"
  ELSE "none"

\* ------------------------------------------------------ repository model
RECURSIVE IsAncestor(_, _)
IsAncestor(a, c) ==
  IF c = 0 THEN FALSE
  ELSE IF a = c THEN TRUE
  ELSE IsAncestor(a, commits[c].parent)

\* octokit.repos.listCommits({sha: branch}): the commits reachable from the tip, newest first
RECURSIVE listCommits(_)
listCommits(c) ==
  IF c = 0 THEN << >> ELSE <<c>> \o listCommits(commits[c].parent)

SeqToSet(s) == {s[i] : i \in 1..Len(s)}

\* The routing-rules file committed at the tip of main
MainRules == commits[refs["main"]].rules

\* The environment named by the committed routing marker
CommittedMarker == MainRules.marker

\* git.updateRef: the object must exist, and a non-forced update is accepted
\* only as a fast-forward
UpdateRefAccepted(branch, sha, force) ==
  /\ sha \in 1..Len(commits)
  /\ force \/ IsAncestor(refs[branch], sha)

\* ---------------------------------------------------------- errors
\* An error as a caller can look at it: status is what the API client sets
\* (0 when the error has none), statusCode and originalError are what
\* handleError sets (0 and "none" when the error has none)
NoError == [status |-> 0, statusCode |-> 0, message |-> "none", originalError |-> "none"]

\* What the GitHub client rejects with at a step of createCommit: 422 when
\* updateRef with force: false is not a fast forward, a server error otherwise
apiError(where) ==
  IF where = "conflict"
  THEN [NoError EXCEPT !.status = 422, !.message = "Update is not a fast forward"]
  ELSE [NoError EXCEPT !.status = 500, !.message = "Server Error"]

\* handleError(context, error): a new Error whose statusCode is error.status,
\* or 500 if the error has none; the message carries the context and a random id
handleError(context, error) ==
  [status |-> 0,
   statusCode |-> IF error.status # 0 THEN error.status ELSE 500,
   message |-> context,
   originalError |-> error.message]

\* The error deployToBranch throws when a step of createCommit failed: the
\* catch block of createCommit wraps it, the executeWithRetry around
\* createCommit rethrows an error without status 5xx or 429 as it is, and the
\* catch block of deployToBranch wraps it again
deployError(where) ==
  handleError("Deployment failed", handleError("Failed to create commit", apiError(where)))

\* ---------------------------------------------------------- call records
Idle ==
  [op |-> "idle", pc |-> "idle", target |-> "none", branch |-> "none",
   files |-> "none", sha |-> 0, cur |-> "none", attempt |-> 0, base |-> 0,
   newc |-> 0, t0 |-> 0, purgeRes |-> "none", deployRes |-> "none",
   urRes |-> "none", resp |-> "none", hist |-> << >>,
   wrote |-> FALSE, applied |-> 0, bcast |-> FALSE, cacheSet |-> FALSE,
   marker0 |-> "none", after |-> "none", since |-> 0, verified |-> FALSE,
   failedAt |-> "none", error |-> NoError]

CanStart(p) == calls[p].op = "idle"

\* A step of request p leaves it as record c; a request that ends frees its
\* slot, and done shows it, as it ended, until the next step
Settle(p, c) ==
  /\ calls' = [calls EXCEPT ![p] = IF c.pc = "done" THEN Idle ELSE c]
  /\ done' = IF c.pc = "done" THEN c ELSE Idle

\* -------------------------------------------------- service records
\* No executeWithRetry call is being followed
NoRetry ==
  [op |-> "none", pc |-> "idle", kind |-> "none", stale |-> FALSE, wait |-> 0,
   sent |-> 0, limited0 |-> FALSE, limited |-> FALSE, expired |-> FALSE]

\* Connection slots of the websocket server
Conns == 1..MaxConns

\* A connection that is not in the client map
NoClient == [tracked |-> FALSE, isAlive |-> FALSE, armed |-> FALSE]

\* A connection nothing is known about yet
NoProbes == [idle |-> 0, missed |-> 0, reaped |-> FALSE]

NoBroadcast ==
  [issued |-> FALSE, filter |-> {}, to |-> {}, delivered |-> [c \in Conns |-> 0],
   failed |-> {}, raised |-> FALSE]

\* The keys two clients can present in sec-websocket-key
Keys == {"k1", "k2"}

\* No connection: no socket, no key, an empty clients map (conn 0 in a
\* record stands for no entry); raised records a TypeError thrown by an
\* event handler
NoKeyed ==
  [socket |-> [c \in Conns |-> "none"], key |-> [c \in Conns |-> "none"],
   clients |-> [k \in Keys |-> [conn |-> 0, isAlive |-> FALSE]], raised |-> FALSE]

\* The page before its script has run: no socket, no timer. closingOld and
\* closingNormal count the replaced sockets whose close event is still to
\* come, timers the pending reconnect timers; stopped and lateAttempt record
\* a normal closure or manual disconnect and a timer that connected after it
NoObserver ==
  [impl |-> "none", socket |-> "none", closingOld |-> 0, closingNormal |-> 0, timers |-> 0,
   delay |-> 0, scheduledAt |-> 0, reconnectAttempts |-> 0,
   connectionState |-> "disconnected", connectionAttempts |-> 0, isManualClose |-> FALSE,
   connectionTimeout |-> FALSE, stopped |-> FALSE, lateAttempt |-> FALSE]

\* No retry loop has been entered
NoLoop ==
  [pc |-> "idle", maxRetries |-> 0, fallback |-> FALSE, attempts |-> 0, invoked |-> 0,
   failed |-> "none", delay |-> 0, outcome |-> "none"]

\* No inbound message has been handled
NoMessage == [from |-> 0, type |-> "none", reply |-> "none", replyTo |-> {}]

\* No parser has been applied to content yet
NoParse == [by |-> "none", result |-> "none"]

\* -------------------------------------------------------------- Init
Init ==
  /\ now = 0
  /\ ticks = 0
  /\ netlifyImpl = "none"
  /\ commits = << [parent |-> 0, rules |-> generateRedirectsContent("blue")] >>
  /\ refs = [b \in DEFAULT_BRANCHES |-> 1]
  /\ cache = [active |-> [has |-> FALSE, data |-> "blue", expires |-> 0, parsed |-> FALSE],
              history |-> [e \in Envs |-> [has |-> FALSE, data |-> << >>, expires |-> 0]],
              deploys |-> {}]
  /\ redirectCache = [activeBranch |-> "none", lastUpdated |-> -1]
  /\ calls = [p \in Procs |-> Idle]
  /\ done = Idle
  /\ lastSwitch = "none"
  /\ lastRollback = [e \in Envs |-> 0]
  /\ rateLimit = [remaining |-> 5000, reset |-> 0, lastChecked |-> 0 - RATE_LIMIT_MAX_AGE]
  /\ rlPending = TRUE
  /\ retry = NoRetry
  /\ stored = [k \in {"active", "history"} |-> 0]
  /\ cleanedAt = 0
  /\ loop = NoLoop
  /\ wsImpl = "none"
  /\ clients = [c \in Conns |-> NoClient]
  /\ sockets = [c \in Conns |-> "none"]
  /\ probes = [c \in Conns |-> NoProbes]
  /\ lastBroadcast = NoBroadcast
  /\ lastMessage = NoMessage
  /\ observer = NoObserver
  /\ keyed = NoKeyed
  /\ fileContent = generateRedirectsContent("blue")
  /\ origin = [by |-> "gitService", env |-> "blue"]
  /\ parsed = NoParse
  /\ fileArray = << >>
  /\ checked = "none"

\* ------------------------------------------------------- environment
\* The clock advances by one minute
Tick ==
  /\ ticks < MaxTicks
  /\ now' = now + REDIRECT_CACHE_TTL
  /\ ticks' = ticks + 1
  /\ done' = Idle
  /\ UNCHANGED <<rlVars, wsVars, fnVars, netlifyImpl, commits, refs, cache,
                 redirectCache, calls, lastSwitch, lastRollback>>

\* require('./netlifyService') resolves to one of the copies of the module
requireNetlifyService(impl) ==
  /\ netlifyImpl = "none"
  /\ netlifyImpl' = impl
  /\ done' = Idle
  /\ UNCHANGED <<rlVars, wsVars, fnVars, now, ticks, commits, refs, cache,
                 redirectCache, calls, lastSwitch, lastRollback>>

\* ------------------------------------- redirectService.getActiveBranch
\* The cached value is used while it is younger than 60 s
RSCacheFreshIn(rc) ==
  /\ rc.activeBranch # "none"
  /\ rc.lastUpdated >= 0
  /\ now - rc.lastUpdated < REDIRECT_CACHE_TTL

RSCacheFresh == RSCacheFreshIn(redirectCache)

\* What the remote read of _redirects yields: the parsed environment, or
\* null ("none") once every attempt has failed
RSReadResult(gh) ==
  IF gh = "ok" THEN ParseActiveBranchRS(MainRules) ELSE "none"

RSCacheAfterRead(gh) ==
  IF gh = "ok"
  THEN [activeBranch |-> ParseActiveBranchRS(MainRules), lastUpdated |-> now]
  ELSE redirectCache

\* ---------------------------------------- gitService.getActiveBranch
ActiveCacheFresh == cache.active.has /\ cache.active.expires > now

\* The callback result, or the fallback 'blue' when the read fails
GitReadResult(gh) ==
  IF gh = "ok" THEN ParseActiveBranchGit(MainRules) ELSE "blue"

\* ------------------------------------------------- files of a switch
RsFiles(e) == IF e = "blue" THEN "rs-blue" ELSE "rs-green"
GitFiles(e) == IF e = "blue" THEN "git-blue" ELSE "git-green"

\* The _redirects content of the tree built from a base commit and a file set
TreeRules(files, base) ==
  CASE files = "rs-blue" -> generateRules("blue")
    [] files = "rs-green" -> generateRules("green")
    [] files = "git-blue" -> generateRedirectsContent("blue")
    [] files = "git-green" -> generateRedirectsContent("green")
    [] OTHER -> commits[base].rules

\* --------------------------------------------------- updateRedirects
\* The updateRedirects task of a switchTraffic call has settled
urEnd(c, res) ==
  [c EXCEPT !.urRes = res, !.pc = IF c.resp # "none" THEN "done" ELSE "ur_end"]

\* One pass of the retry loop up to its first remote request, rc being the
\* cache getActiveBranch finds
urLoopWith(c, rc) ==
  IF RSCacheFreshIn(rc)
  THEN IF rc.activeBranch = c.target
       THEN urEnd(c, "noop")
       ELSE [c EXCEPT !.pc = "d_resolve", !.branch = "main", !.files = RsFiles(c.target)]
  ELSE [c EXCEPT !.pc = "ur_read"]

\* One pass of the retry loop with the cache as it is
urLoop(c) == urLoopWith(c, redirectCache)

\* The catch block of the retry loop
urCatch(c) ==
  IF c.attempt >= maxRetries
  THEN urEnd(c, "fail")
  ELSE urLoop([c EXCEPT !.attempt = c.attempt + 1])

\* netlifyService.purgeCache: the deployease copy throws, the backend copy
\* returns {success: false}
purgeCache(n) ==
  IF n = "up" THEN "ok"
  ELSE IF netlifyImpl = "deployease" THEN "reject" ELSE "failed"

\* netlifyService.triggerDeploy('main'): the deployease copy accepts only
\* 'blue' and 'green'
triggerDeployMain(n) ==
  IF netlifyImpl = "deployease" THEN "reject"
  ELSE IF n # "down" THEN "ok" ELSE "reject"

\* switchTraffic, the Promise.all of updateRedirects, purgeCache and triggerDeploy
PromiseAllStart(c, n, rc) ==
  urLoopWith([c EXCEPT !.attempt = 1, !.purgeRes = purgeCache(n),
                       !.deployRes = triggerDeployMain(n), !.wrote = TRUE], rc)

\* switchTraffic after the current branch is known
switchTrafficDecide(c, cur, n, rc) ==
  IF cur = c.target
  THEN [c EXCEPT !.resp = "nochange", !.pc = "done"]
  ELSE PromiseAllStart(c, n, rc)

\* switchEnvironment after the current branch is known
switchEnvironmentDecide(c, cur) ==
  IF cur = c.target
  THEN [c EXCEPT !.resp = "nochange", !.pc = "done"]
  ELSE [c EXCEPT !.pc = "d_resolve", !.branch = "main",
                 !.files = GitFiles(c.target)]

\* ----------------------------------------------------- deployToBranch
\* A deployToBranch that swallows the error and returns what it has
deployErrorSwallowed(c, where) ==
  IF c.op = "switchTraffic" THEN urCatch(c)
  ELSE [c EXCEPT !.resp = "ok", !.sha = c.newc, !.pc = "done", !.failedAt = where]

\* deployToBranch threw: what its caller does with the error
deployThrew(c, where) ==
  IF c.op = "switchTraffic" THEN urCatch(c)
  ELSE [c EXCEPT !.resp = "fail", !.pc = "done", !.failedAt = where,
                 !.error = deployError(where)]

\* deployToBranch returned a result for commit sha
deployReturned(c, sha) ==
  CASE c.op = "switchTraffic" -> [c EXCEPT !.pc = "ur_purge", !.wrote = TRUE]
    [] c.op = "switchEnv" -> [c EXCEPT !.resp = "changed", !.pc = "done"]
    [] OTHER -> [c EXCEPT !.sha = sha, !.resp = "ok", !.pc = "done"]

\* The dedup entries stored under the key `${branch}-${commitHash}`; the hash
\* covers the files and Date.now(), and a retry of updateRedirects starts at
\* least a second after the attempt before it
DedupHits(c) ==
  IF c.attempt > 1 THEN {}
  ELSE {e \in cache.deploys : e.branch = c.branch /\ e.files = c.files /\ e.t = now}

\* switchEnvironment deletes the 'active-branch' entry once the commit is made
cacheAfterDeploy(c, ch) ==
  IF c.op = "switchEnv" THEN [ch EXCEPT !.active.has = FALSE] ELSE ch

\* deployToBranch up to the tip read of createCommit
DeployResolve(p, gh) ==
  LET c0 == calls[p]
      c == [c0 EXCEPT !.t0 = now]
  IN
  /\ c0.pc = "d_resolve"
  /\ IF DedupHits(c) # {}
     THEN /\ \E e \in DedupHits(c) : Settle(p, deployReturned(c, e.sha))
          /\ cache' = cacheAfterDeploy(c, cache)
          /\ lastSwitch' = IF c.op = "switchEnv" THEN c.target ELSE lastSwitch
     ELSE /\ IF gh = "ok"
             THEN Settle(p, [c EXCEPT !.base = refs[c.branch], !.pc = "d_build"])
             ELSE Settle(p, deployThrew(c, "resolve"))
          /\ UNCHANGED <<cache, lastSwitch>>
  /\ UNCHANGED <<rlVars, wsVars, fnVars, now, ticks, netlifyImpl, commits, refs,
                 redirectCache, lastRollback>>

\* createCommit: the blobs, the tree on top of the base tree and the commit
\* object whose parent is the tip that was resolved. The three requests touch
\* nothing another request reads until the commit exists, so they are one
\* step; any of them may be the one that fails.
CreateObjects(p, gh) ==
  LET c == calls[p] IN
  /\ c.pc = "d_build"
  /\ IF gh = "ok"
     THEN /\ Len(commits) <= MaxCommits
          /\ commits' = Append(commits, [parent |-> c.base, rules |-> TreeRules(c.files, c.base)])
          /\ Settle(p, [c EXCEPT !.pc = "d_ref", !.newc = Len(commits) + 1, !.wrote = TRUE])
     ELSE /\ \E where \in {"blob", "tree", "commit"} :
               Settle(p, deployThrew([c EXCEPT !.wrote = c.wrote \/ where # "blob"], where))
          /\ UNCHANGED commits
  /\ UNCHANGED <<rlVars, wsVars, fnVars, now, ticks, netlifyImpl, refs, cache,
                 redirectCache, lastSwitch, lastRollback>>

\* A createCommit that forces the reference update
createCommitForced == TRUE

\* The force flag createCommit passes to git.updateRef
createCommitForce == FALSE

\* createCommit: the branch reference update, then the rest of deployToBranch
UpdateBranchRef(p, gh) ==
  LET c == calls[p] IN
  /\ c.pc = "d_ref"
  /\ IF gh = "ok" /\ UpdateRefAccepted(c.branch, c.newc, createCommitForce)
     THEN /\ refs' = [refs EXCEPT ![c.branch] = c.newc]
          /\ Settle(p, deployReturned([c EXCEPT !.applied = c.applied + 1], c.newc))
          /\ cache' = cacheAfterDeploy(c,
                        [cache EXCEPT !.deploys = cache.deploys \cup
                           {[branch |-> c.branch, files |-> c.files, t |-> c.t0,
                             sha |-> c.newc]}])
          /\ lastSwitch' = IF c.op = "switchEnv" THEN c.target
                           ELSE IF c.branch = "main" THEN "none" ELSE lastSwitch
          /\ lastRollback' = [e \in Envs |-> IF e = c.branch THEN 0 ELSE lastRollback[e]]
     ELSE /\ Settle(p, deployThrew(c, IF gh = "ok" THEN "conflict" ELSE "ref"))
          /\ UNCHANGED <<refs, cache, lastSwitch, lastRollback>>
  /\ UNCHANGED <<rlVars, wsVars, fnVars, now, ticks, netlifyImpl, commits, redirectCache>>

\* ------------------------------------ environmentController.switchTraffic
\* The request arrives: validation, then redirectService.getActiveBranch
switchTraffic(p, targetBranch, n) ==
  LET c == [Idle EXCEPT !.op = "switchTraffic", !.target = targetBranch,
                        !.marker0 = CommittedMarker]
  IN
  /\ CanStart(p)
  /\ netlifyImpl # "none"
  /\ lastSwitch' = "none"
  /\ Settle(p, IF targetBranch \notin Envs
       THEN [c EXCEPT !.resp = "bad_request", !.pc = "done"]
       ELSE IF RSCacheFresh
            THEN switchTrafficDecide(c, redirectCache.activeBranch, n, redirectCache)
            ELSE [c EXCEPT !.pc = "st_read"])
  /\ UNCHANGED <<rlVars, wsVars, fnVars, now, ticks, netlifyImpl, commits, refs, cache,
                 redirectCache, lastRollback>>

\* The read of _redirects issued by switchTraffic's getActiveBranch completes
switchTrafficRead(p, gh, n) ==
  LET c == calls[p] IN
  /\ c.op = "switchTraffic" /\ c.pc = "st_read"
  /\ redirectCache' = RSCacheAfterRead(gh)
  /\ Settle(p, switchTrafficDecide(c, RSReadResult(gh), n, RSCacheAfterRead(gh)))
  /\ UNCHANGED <<rlVars, wsVars, fnVars, now, ticks, netlifyImpl, commits, refs, cache,
                 lastSwitch, lastRollback>>

\* The read of _redirects issued by updateRedirects' getActiveBranch completes
updateRedirectsRead(p, gh) ==
  LET c == calls[p]
      cur == RSReadResult(gh)
  IN
  /\ c.op = "switchTraffic" /\ c.pc = "ur_read"
  /\ redirectCache' = RSCacheAfterRead(gh)
  /\ Settle(p, IF cur = c.target
       THEN urEnd(c, "noop")
       ELSE [c EXCEPT !.pc = "d_resolve", !.branch = "main", !.files = RsFiles(c.target)])
  /\ UNCHANGED <<rlVars, wsVars, fnVars, now, ticks, netlifyImpl, commits, refs, cache,
                 lastSwitch, lastRollback>>

\* updateRedirects: the purge issued after the commit answers, then the cache update
updateRedirectsPurged(p, n) ==
  LET c == calls[p] IN
  /\ c.op = "switchTraffic" /\ c.pc = "ur_purge"
  /\ IF purgeCache(n) = "reject"
     THEN /\ Settle(p, urCatch(c))
          /\ UNCHANGED redirectCache
     ELSE /\ redirectCache' = [activeBranch |-> c.target, lastUpdated |-> now]
          /\ Settle(p, urEnd([c EXCEPT !.cacheSet = TRUE], "updated"))
  /\ UNCHANGED <<rlVars, wsVars, fnVars, now, ticks, netlifyImpl, commits, refs, cache,
                 lastSwitch, lastRollback>>

\* A Promise.all that ignores the outcome of updateRedirects
PromiseAllIgnoringCommit(c) ==
  c.purgeRes = "reject" \/ c.deployRes = "reject"

\* Whether the Promise.all of switchTraffic has rejected
PromiseAllRejected(c) ==
  c.purgeRes = "reject" \/ c.deployRes = "reject" \/ c.urRes = "fail"

\* switchTraffic after the Promise.all: broadcast and 200, or the catch block and 500
switchTrafficRespond(p) ==
  LET c == calls[p]
      pcAfter == IF c.pc = "ur_end" THEN "done" ELSE c.pc
  IN
  /\ c.op = "switchTraffic" /\ c.resp = "none" /\ c.purgeRes # "none"
  /\ PromiseAllRejected(c) \/ c.pc = "ur_end"
  /\ IF PromiseAllRejected(c)
     THEN /\ Settle(p, [c EXCEPT !.resp = "fail", !.pc = pcAfter])
          /\ UNCHANGED lastSwitch
     ELSE /\ Settle(p, [c EXCEPT !.resp = "changed", !.bcast = TRUE, !.pc = pcAfter])
          /\ lastSwitch' = c.target
  /\ UNCHANGED <<rlVars, wsVars, fnVars, now, ticks, netlifyImpl, commits, refs, cache,
                 redirectCache, lastRollback>>

\* ------------------------------------------ gitService.switchEnvironment
\* The request arrives: validation, then executeWithRetry around getActiveBranch
switchEnvironment(p, targetBranch, rl) ==
  LET c == [Idle EXCEPT !.op = "switchEnv", !.target = targetBranch,
                        !.marker0 = CommittedMarker]
  IN
  /\ CanStart(p)
  /\ lastSwitch' = "none"
  /\ Settle(p, IF targetBranch \notin Envs
       THEN [c EXCEPT !.resp = "fail", !.pc = "done"]
       ELSE IF ActiveCacheFresh
            THEN switchEnvironmentDecide(c, cache.active.data)
            ELSE IF rl = "throw"
                 THEN IF cache.active.has
                      THEN switchEnvironmentDecide(c, cache.active.data)
                      ELSE [c EXCEPT !.resp = "fail", !.pc = "done"]
                 ELSE [c EXCEPT !.pc = "se_read"])
  /\ UNCHANGED <<rlVars, wsVars, fnVars, now, ticks, netlifyImpl, commits, refs, cache,
                 redirectCache, lastRollback>>

\* getActiveBranch answers inside switchEnvironment, with the branch parsed
\* from the file or with 'blue' when its read failed; the executeWithRetry of
\* switchEnvironment caches the answer either way (parsed records which)
switchEnvironmentRead(p, gh) ==
  LET c == calls[p] IN
  /\ c.op = "switchEnv" /\ c.pc = "se_read"
  /\ cache' = [cache EXCEPT !.active =
                 [has |-> TRUE, data |-> GitReadResult(gh), expires |-> now + ACTIVE_BRANCH_TTL,
                  parsed |-> gh = "ok"]]
  /\ Settle(p, switchEnvironmentDecide(c, GitReadResult(gh)))
  /\ UNCHANGED <<rlVars, wsVars, fnVars, now, ticks, netlifyImpl, commits, refs,
                 redirectCache, lastSwitch, lastRollback>>

\* ------------------------------------------------------ getActiveBranch
\* redirectService.getActiveBranch is called
getActiveBranchRS(p) ==
  LET c == [Idle EXCEPT !.op = "getActiveRS", !.after = lastSwitch] IN
  /\ CanStart(p)
  /\ netlifyImpl # "none"
  /\ Settle(p, IF RSCacheFresh
               THEN [c EXCEPT !.cur = redirectCache.activeBranch, !.resp = "value", !.pc = "done"]
               ELSE [c EXCEPT !.pc = "ga_read"])
  /\ UNCHANGED <<rlVars, wsVars, fnVars, now, ticks, netlifyImpl, commits, refs, cache,
                 redirectCache, lastSwitch, lastRollback>>

\* The read of _redirects issued by redirectService.getActiveBranch completes
getActiveBranchRSRead(p, gh) ==
  LET c == calls[p] IN
  /\ c.op = "getActiveRS" /\ c.pc = "ga_read"
  /\ redirectCache' = RSCacheAfterRead(gh)
  /\ Settle(p, [c EXCEPT !.cur = RSReadResult(gh), !.resp = "value", !.pc = "done"])
  /\ UNCHANGED <<rlVars, wsVars, fnVars, now, ticks, netlifyImpl, commits, refs, cache,
                 lastSwitch, lastRollback>>

\* gitService.getActiveBranch is called: executeWithRetry with cacheKey
\* 'active-branch' and fallbackValue 'blue'
getActiveBranch(p, rl) ==
  LET c == [Idle EXCEPT !.op = "getActiveGit", !.after = lastSwitch]
      value(v) == [c EXCEPT !.cur = v, !.resp = "value", !.pc = "done"]
  IN
  /\ CanStart(p)
  /\ Settle(p, IF ActiveCacheFresh THEN value(cache.active.data)
               ELSE IF rl = "throw"
                    THEN IF cache.active.has THEN value(cache.active.data)
                         ELSE value("blue")
                    ELSE [c EXCEPT !.pc = "ga_read"])
  /\ UNCHANGED <<rlVars, wsVars, fnVars, now, ticks, netlifyImpl, commits, refs, cache,
                 redirectCache, lastSwitch, lastRollback>>

\* The read of _redirects issued by gitService.getActiveBranch completes
getActiveBranchRead(p, gh) ==
  LET c == calls[p] IN
  /\ c.op = "getActiveGit" /\ c.pc = "ga_read"
  /\ cache' = IF gh = "ok"
              THEN [cache EXCEPT !.active =
                      [has |-> TRUE, data |-> GitReadResult(gh),
                       expires |-> now + ACTIVE_BRANCH_TTL, parsed |-> TRUE]]
              ELSE cache
  /\ Settle(p, [c EXCEPT !.cur = GitReadResult(gh), !.resp = "value", !.pc = "done"])
  /\ UNCHANGED <<rlVars, wsVars, fnVars, now, ticks, netlifyImpl, commits, refs,
                 redirectCache, lastSwitch, lastRollback>>

\* -------------------------------------------------------- validateFiles
VALID_FILE_EXTENSIONS == {".html", ".css", ".js", ".json", ".txt", ".md"}

\* A path is its directory, its base name and what path.extname gives for it
RootFile(name, ext) == [dir |-> 0, name |-> name, ext |-> ext]

NETLIFY_SPECIAL_FILES ==
  {RootFile("_redirects", ""), RootFile("_headers", ""), RootFile("netlify", ".toml")}

\* A file of a deployment request: content holds Buffer.byteLength(file.content)
File(path, bytes) == [path |-> path, hasContent |-> TRUE, content |-> bytes]

\* The file arrays requests come with, next to the site files of FileSets
Uploads ==
  {"siteA", "empty", "tooMany", "noContent", "duplicate", "badExt", "oversized",
   "bigRedirects"}

filesOf(upload) ==
  CASE upload = "siteA" -> <<File(RootFile("index", ".html"), 1024)>>
    [] upload = "siteB" -> <<File(RootFile("index", ".html"), 2048),
                             File(RootFile("app", ".js"), MAX_FILE_SIZE)>>
    [] upload = "empty" -> << >>
    [] upload = "tooMany" ->
         [i \in 1..(MAX_FILES + 1) |-> File([dir |-> i, name |-> "index", ext |-> ".html"], 1024)]
    [] upload = "noContent" ->
         <<[path |-> RootFile("index", ".html"), hasContent |-> FALSE, content |-> 0]>>
    [] upload = "duplicate" -> <<File(RootFile("index", ".html"), 1024),
                                 File(RootFile("index", ".html"), 2048)>>
    [] upload = "badExt" -> <<File(RootFile("index", ".html"), 1024),
                              File(RootFile("setup", ".exe"), 1024)>>
    [] upload = "oversized" -> <<File(RootFile("index", ".html"), MAX_FILE_SIZE + 1)>>
    [] upload = "bigRedirects" -> <<File(RootFile("index", ".html"), 1024),
                                    File(RootFile("_redirects", ""), MAX_FILE_SIZE + 1)>>

\* validateFiles, the body of forEach: a Netlify special file returns before
\* the extension check and before the size check
validateFile(file, seenPaths) ==
  IF ~file.hasContent THEN "noPathOrContent"
  ELSE IF file.path \in seenPaths THEN "duplicate"
  ELSE IF file.path \in NETLIFY_SPECIAL_FILES THEN "ok"
  ELSE IF file.path.ext \notin VALID_FILE_EXTENSIONS THEN "extension"
  ELSE IF file.content > MAX_FILE_SIZE THEN "size"
  ELSE "ok"

\* files.forEach with the set of paths seen so far
RECURSIVE forEachFile(_, _, _)
forEachFile(files, i, seenPaths) ==
  IF i > Len(files) THEN "ok"
  ELSE IF validateFile(files[i], seenPaths) # "ok" THEN validateFile(files[i], seenPaths)
  ELSE forEachFile(files, i + 1, seenPaths \cup {files[i].path})

\* validateFiles(files): "ok" or the error it throws
validateFiles(files) ==
  IF Len(files) = 0 THEN "noFiles"
  ELSE IF Len(files) > MAX_FILES THEN "tooMany"
  ELSE forEachFile(files, 1, {})

\* What deployToBranch throws before its first request, "none" if nothing
deployRejection(branch, files) ==
  IF Len(files) = 0 THEN "noFiles"
  ELSE IF branch \notin DEFAULT_BRANCHES THEN "branch"
  ELSE IF validateFiles(files) # "ok" THEN validateFiles(files)
  ELSE "none"

\* ------------------------------------------- deployToBranch as a request
RollbackShas == 1..(MaxCommits + 1)

\* gitService.deployToBranch is called with a set of site files: the branch
\* and the files are validated before the first request
deployToBranch(p, branch, files) ==
  LET c == [Idle EXCEPT !.op = "deployToBranch", !.branch = branch, !.files = files]
  IN
  /\ CanStart(p)
  /\ Settle(p, IF deployRejection(branch, filesOf(files)) # "none"
               THEN [c EXCEPT !.resp = "fail", !.pc = "done",
                              !.failedAt = deployRejection(branch, filesOf(files))]
               ELSE [c EXCEPT !.pc = "d_resolve"])
  /\ UNCHANGED <<rlVars, wsVars, fnVars, now, ticks, netlifyImpl, commits, refs, cache,
                 redirectCache, lastSwitch, lastRollback>>

\* ------------------------------------------------- rollbackToCommit
\* A rollback that goes straight to the reference update
rollbackWithoutVerify == "rb_update"

\* The first request rollbackToCommit issues is git.getCommit
rollbackFirstStep == "rb_verify"

\* gitService.rollbackToCommit is called: branch validation
rollbackToCommit(p, branch, commitSha) ==
  LET c == [Idle EXCEPT !.op = "rollbackToCommit", !.branch = branch, !.sha = commitSha]
  IN
  /\ CanStart(p)
  /\ Settle(p, IF branch \notin Envs
               THEN [c EXCEPT !.resp = "fail", !.pc = "done", !.failedAt = "branch"]
               ELSE [c EXCEPT !.pc = rollbackFirstStep])
  /\ UNCHANGED <<rlVars, wsVars, fnVars, now, ticks, netlifyImpl, commits, refs, cache,
                 redirectCache, lastSwitch, lastRollback>>

\* git.getCommit answers for the commit to roll back to
commitVerified(commitSha, gh) ==
  gh = "ok" /\ commitSha \in 1..Len(commits)

\* rollbackToCommit: the commit is verified before anything is written
rollbackVerify(p, gh) ==
  LET c == calls[p] IN
  /\ c.op = "rollbackToCommit" /\ c.pc = "rb_verify"
  /\ Settle(p, IF commitVerified(c.sha, gh)
               THEN [c EXCEPT !.pc = "rb_update", !.verified = TRUE]
               ELSE [c EXCEPT !.resp = "fail", !.pc = "done", !.failedAt = "verify"])
  /\ UNCHANGED <<rlVars, wsVars, fnVars, now, ticks, netlifyImpl, commits, refs, cache,
                 redirectCache, lastSwitch, lastRollback>>

\* The force flag rollbackToCommit passes to git.updateRef
rollbackForce == TRUE

\* rollbackToCommit: the forced branch-reference update
rollbackUpdateRef(p, gh) ==
  LET c == calls[p] IN
  /\ c.op = "rollbackToCommit" /\ c.pc = "rb_update"
  /\ IF gh = "ok" /\ UpdateRefAccepted(c.branch, c.sha, rollbackForce)
     THEN /\ refs' = [refs EXCEPT ![c.branch] = c.sha]
          /\ lastRollback' = [lastRollback EXCEPT ![c.branch] = c.sha]
          /\ Settle(p, [c EXCEPT !.resp = "ok", !.pc = "done", !.applied = 1])
     ELSE /\ Settle(p, [c EXCEPT !.resp = "fail", !.pc = "done", !.failedAt = "ref"])
          /\ UNCHANGED <<refs, lastRollback>>
  /\ UNCHANGED <<rlVars, wsVars, fnVars, now, ticks, netlifyImpl, commits, cache,
                 redirectCache, lastSwitch>>

\* ----------------------------------------------- getDeploymentHistory
HistoryCacheFresh(branch) ==
  cache.history[branch].has /\ cache.history[branch].expires > now

\* gitService.getDeploymentHistory is called: executeWithRetry with cacheKey
\* `history-${branch}-${limit}` and fallbackValue []
getDeploymentHistory(p, branch, rl) ==
  LET c == [Idle EXCEPT !.op = "getDeploymentHistory", !.branch = branch,
                        !.since = lastRollback[branch]]
      value(h) == [c EXCEPT !.hist = h, !.resp = "value", !.pc = "done"]
  IN
  /\ CanStart(p)
  /\ Settle(p, IF HistoryCacheFresh(branch) THEN value(cache.history[branch].data)
               ELSE IF rl = "throw"
                    THEN IF cache.history[branch].has
                         THEN value(cache.history[branch].data)
                         ELSE value(<< >>)
                    ELSE [c EXCEPT !.pc = "h_read"])
  /\ UNCHANGED <<rlVars, wsVars, fnVars, now, ticks, netlifyImpl, commits, refs, cache,
                 redirectCache, lastSwitch, lastRollback>>

\* repos.listCommits answers, or every attempt has failed
getDeploymentHistoryRead(p, gh) ==
  LET c == calls[p]
      h == listCommits(refs[c.branch])
  IN
  /\ c.op = "getDeploymentHistory" /\ c.pc = "h_read"
  /\ IF gh = "ok"
     THEN /\ cache' = [cache EXCEPT !.history[c.branch] =
                         [has |-> TRUE, data |-> h, expires |-> now + HISTORY_TTL]]
          /\ Settle(p, [c EXCEPT !.hist = h, !.resp = "value", !.pc = "done"])
     ELSE /\ Settle(p, [c EXCEPT !.hist = << >>, !.resp = "value", !.pc = "done"])
          /\ UNCHANGED cache
  /\ UNCHANGED <<rlVars, wsVars, fnVars, now, ticks, netlifyImpl, commits, refs,
                 redirectCache, lastSwitch, lastRollback>>

\* ------------------------------------------------------ specifications
SwitchTargets == Envs \cup {"invalid"}

CommitSteps ==
  \/ \E p \in Procs, gh \in GitHubAnswers : DeployResolve(p, gh)
  \/ \E p \in Procs, gh \in GitHubAnswers : CreateObjects(p, gh)
  \/ \E p \in Procs, gh \in GitHubAnswers : UpdateBranchRef(p, gh)

\* Traffic switches through environmentController and redirectService
NextTraffic ==
  \/ \E impl \in NetlifyImpls : requireNetlifyService(impl)
  \/ Tick
  \/ \E p \in SwitchProcs, t \in SwitchTargets, n \in NetlifyAnswers :
       switchTraffic(p, t, n)
  \/ \E p \in SwitchProcs, gh \in GitHubAnswers, n \in NetlifyAnswers :
       switchTrafficRead(p, gh, n)
  \/ \E p \in SwitchProcs, gh \in GitHubAnswers : updateRedirectsRead(p, gh)
  \/ \E p \in SwitchProcs, n \in NetlifyAnswers : updateRedirectsPurged(p, n)
  \/ \E p \in SwitchProcs : switchTrafficRespond(p)
  \/ \E p \in SwitchProcs : getActiveBranchRS(p)
  \/ \E p \in SwitchProcs, gh \in GitHubAnswers : getActiveBranchRSRead(p, gh)
  \/ CommitSteps

SpecTraffic == Init /\ [][NextTraffic]_vars

\* Environment switches through gitService
NextEnvironment ==
  \/ Tick
  \/ \E p \in SwitchProcs, t \in SwitchTargets, rl \in RateLimitChecks :
       switchEnvironment(p, t, rl)
  \/ \E p \in SwitchProcs, gh \in GitHubAnswers : switchEnvironmentRead(p, gh)
  \/ \E p \in SwitchProcs, rl \in RateLimitChecks : getActiveBranch(p, rl)
  \/ \E p \in SwitchProcs, gh \in GitHubAnswers : getActiveBranchRead(p, gh)
  \/ CommitSteps

SpecEnvironment == Init /\ [][NextEnvironment]_vars

\* Concurrent deployments
NextCommit ==
  \/ \E p \in Procs, b \in Envs, f \in FileSets : deployToBranch(p, b, f)
  \/ CommitSteps

SpecCommit == Init /\ [][NextCommit]_vars

\* Repeated deployments as time passes
NextDeploy ==
  \/ Tick
  \/ \E p \in SwitchProcs, b \in Envs, f \in FileSets : deployToBranch(p, b, f)
  \/ CommitSteps

SpecDeploy == Init /\ [][NextDeploy]_vars

\* Deployments, rollbacks and deployment history of one environment; a
\* rollback request may also name a branch that is not an environment
RollbackEnvs == {"blue"}

NextRollback ==
  \/ \E p \in SwitchProcs, b \in RollbackEnvs, f \in FileSets : deployToBranch(p, b, f)
  \/ \E p \in SwitchProcs, b \in RollbackEnvs \cup {"main"}, s \in RollbackShas :
       rollbackToCommit(p, b, s)
  \/ \E p \in SwitchProcs, gh \in GitHubAnswers : rollbackVerify(p, gh)
  \/ \E p \in SwitchProcs, gh \in GitHubAnswers : rollbackUpdateRef(p, gh)
  \/ \E p \in SwitchProcs, b \in RollbackEnvs, rl \in RateLimitChecks :
       getDeploymentHistory(p, b, rl)
  \/ \E p \in SwitchProcs, gh \in GitHubAnswers : getDeploymentHistoryRead(p, gh)
  \/ CommitSteps

SpecRollback == Init /\ [][NextRollback]_vars

\* ------------------------------------------- gitService rate limiting
\* checkRateLimit, updateRateLimit, cleanupCache and executeWithRetry followed
\* request by request for three callers: getActiveBranch (cacheKey
\* 'active-branch', fallbackValue 'blue'), getDeploymentHistory (cacheKey
\* `history-${branch}-${limit}`, fallbackValue []) and the git.getCommit call
\* of rollbackToCommit (no cacheKey, no fallbackValue).
RetryOps == {"getActiveBranch", "getDeploymentHistory", "getCommit"}

\* GET /rate_limit answers with the quota, or fails: with a 403 rate-limit
\* error carrying x-ratelimit-reset, or with any other error
RateLimitAnswers == {"plenty", "exhausted", "limit403", "error"}

\* Seconds from the answer to the reset time GitHub reports
ResetDelays == {60, 3600}

\* What the wrapped API call ends in once its attempts are used up
ApiAnswers == {"ok", "error", "limit403"}

\* Time steps of the clock in this part, in ms
Delays == {REDIRECT_CACHE_TTL, CLEANUP_INTERVAL}

remainingOf(ans) == IF ans = "plenty" THEN 5000 ELSE 0

\* Math.ceil((resetTime - t) / 1000) for times in ms
waitTime(resetTime, t) == -((t - resetTime) \div 1000)

hasCacheKey(op) == op # "getCommit"
hasFallback(op) == op # "getCommit"

\* this.cache.get(cacheKey) for the cacheKey of op
cacheEntry(op) ==
  IF op = "getActiveBranch" THEN cache.active ELSE cache.history["blue"]

cacheTTL(op) == IF op = "getActiveBranch" THEN ACTIVE_BRANCH_TTL ELSE HISTORY_TTL

\* A check of the remaining quota that ignores the reset time
quotaLow ==
  rateLimit.remaining < RATE_LIMIT_THRESHOLD

\* cleanupCache's isRateLimited, on the recorded rate-limit state
isRateLimited ==
  rateLimit.remaining < RATE_LIMIT_THRESHOLD /\ now < rateLimit.reset * 1000

\* executeWithRetry returns the cached data, fresh or (in the catch of the
\* rate-limit check) expired; what is returned is the bare data
returnCached(e, op, kind, lim) ==
  [e EXCEPT !.pc = "done", !.kind = kind, !.limited = lim,
            !.expired = now >= stored[IF op = "getActiveBranch" THEN "active" ELSE "history"]]

\* executeWithRetry throws: getActiveBranch and getDeploymentHistory catch
\* the error and return their default, rollbackToCommit rethrows it
throwError(e, op, w, lim) ==
  IF hasFallback(op)
  THEN [e EXCEPT !.pc = "done", !.kind = "fallback", !.limited = lim]
  ELSE [e EXCEPT !.pc = "done", !.kind = "error", !.wait = w, !.limited = lim]

\* The catch block around checkRateLimit in executeWithRetry
rateLimitCheckThrew(e, op, w, lim) ==
  IF hasCacheKey(op) /\ cacheEntry(op).has THEN returnCached(e, op, "expiredCache", lim)
  ELSE IF hasFallback(op) THEN [e EXCEPT !.pc = "done", !.kind = "fallback", !.limited = lim]
  ELSE throwError(e, op, w, lim)

\* The age below which checkRateLimit(true) trusts the recorded state
rateLimitRecordFresh == now - rateLimit.lastChecked < RATE_LIMIT_MAX_AGE

\* executeWithRetry is entered: cache check, then checkRateLimit(true) on the
\* recorded state, or the quota refresh request when the record is too old
executeWithRetry(op) ==
  LET e == [NoRetry EXCEPT !.op = op, !.limited0 = isRateLimited] IN
  /\ retry.pc \in {"idle", "done"}
  /\ retry' =
       IF hasCacheKey(op) /\ cacheEntry(op).has /\ cacheEntry(op).expires > now
       THEN returnCached(e, op, "cacheHit", isRateLimited)
       ELSE IF rateLimitRecordFresh
            THEN IF isRateLimited
                 THEN rateLimitCheckThrew(e, op, waitTime(rateLimit.reset * 1000, now), TRUE)
                 ELSE [e EXCEPT !.pc = "call"]
            ELSE [e EXCEPT !.pc = "refresh", !.sent = 1]
  /\ UNCHANGED <<handlerVars, wsVars, fnVars, loop, now, ticks, cache, rateLimit, rlPending, stored, cleanedAt>>

\* updateRateLimit: what the answer to GET /rate_limit leaves in this.rateLimit
rateLimitAfter(ans, d) ==
  IF ans = "error" THEN rateLimit
  ELSE [remaining |-> remainingOf(ans), reset |-> now \div 1000 + d, lastChecked |-> now]

\* checkRateLimit: the quota refresh it awaited has answered
checkRateLimitRefreshed(ans, d) ==
  LET e == retry
      rl == rateLimitAfter(ans, d)
      w == waitTime(rl.reset * 1000, now)
  IN
  /\ e.pc = "refresh"
  /\ rateLimit' = rl
  /\ retry' =
       CASE ans = "error" -> rateLimitCheckThrew(e, e.op, 0, FALSE)
         [] ans = "limit403" -> rateLimitCheckThrew(e, e.op, w, TRUE)
         [] ans = "exhausted" -> rateLimitCheckThrew(e, e.op, w, TRUE)
         [] OTHER -> [e EXCEPT !.pc = "call"]
  /\ UNCHANGED <<handlerVars, wsVars, fnVars, loop, now, ticks, cache, rlPending, stored, cleanedAt>>

\* The wrapped API call has answered, or has failed on its last attempt
apiCallAnswered(ans, d) ==
  LET e == [retry EXCEPT !.sent = retry.sent + 1]
      op == e.op
      key == IF op = "getActiveBranch" THEN "active" ELSE "history"
      entry == [has |-> TRUE,
                data |-> IF op = "getActiveBranch" THEN ParseActiveBranchGit(MainRules)
                         ELSE listCommits(refs["blue"]),
                expires |-> now + cacheTTL(op)]
  IN
  /\ retry.pc = "call"
  /\ CASE ans = "ok" ->
            /\ retry' = [e EXCEPT !.pc = "done", !.kind = "fresh"]
            /\ cache' = IF op = "getActiveBranch" THEN [cache EXCEPT !.active =
                                [has |-> TRUE, data |-> entry.data, expires |-> entry.expires,
                                 parsed |-> TRUE]]
                        ELSE IF op = "getDeploymentHistory"
                             THEN [cache EXCEPT !.history["blue"] = entry]
                             ELSE cache
            /\ stored' = IF hasCacheKey(op) THEN [stored EXCEPT ![key] = now + cacheTTL(op)]
                         ELSE stored
            /\ rlPending' = TRUE
            /\ UNCHANGED rateLimit
       [] ans = "limit403" ->
            /\ rateLimit' = rateLimitAfter(ans, d)
            /\ retry' = throwError(e, op, waitTime((now \div 1000 + d) * 1000, now), TRUE)
            /\ UNCHANGED <<cache, stored, rlPending>>
       [] OTHER ->
            /\ retry' = IF hasFallback(op)
                        THEN [e EXCEPT !.pc = "done", !.kind = "fallback"]
                        ELSE throwError(e, op, 0, FALSE)
            /\ UNCHANGED <<cache, stored, rlPending, rateLimit>>
  /\ UNCHANGED <<handlerVars, wsVars, fnVars, loop, now, ticks, cleanedAt>>

\* The updateRateLimit started by the constructor, or after a successful
\* call, has answered; nobody awaits it
updateRateLimit(ans, d) ==
  /\ rlPending
  /\ rlPending' = FALSE
  /\ rateLimit' = rateLimitAfter(ans, d)
  /\ UNCHANGED <<handlerVars, wsVars, fnVars, loop, now, ticks, cache, retry, stored, cleanedAt>>

\* setInterval(() => this.cleanupCache(), 600000)
cleanupCache ==
  LET extend(en) == IF en.has /\ en.expires < now + CACHE_TTL_EXTENDED
                    THEN [en EXCEPT !.expires = now + CACHE_TTL_EXTENDED] ELSE en
      purge(en) == IF en.has /\ en.expires < now THEN [en EXCEPT !.has = FALSE] ELSE en
  IN
  /\ now > 0 /\ now % CLEANUP_INTERVAL = 0 /\ cleanedAt < now
  /\ cleanedAt' = now
  /\ cache' = IF isRateLimited
              THEN [cache EXCEPT !.active = extend(cache.active),
                                 !.history = [b \in Envs |-> extend(cache.history[b])]]
              ELSE [cache EXCEPT !.active = purge(cache.active),
                                 !.history = [b \in Envs |-> purge(cache.history[b])],
                                 !.deploys = {en \in cache.deploys : ~(en.t + CACHE_TTL < now)}]
  /\ UNCHANGED <<handlerVars, wsVars, fnVars, loop, now, ticks, rateLimit, rlPending, retry, stored>>

\* Time passes
TimePasses(d) ==
  /\ ticks < MaxTicks
  /\ now' = now + d
  /\ ticks' = ticks + 1
  /\ UNCHANGED <<handlerVars, wsVars, fnVars, loop, cache, rateLimit, rlPending, retry, stored, cleanedAt>>

\* The rate-limit handling of gitService as time passes
NextRateLimit ==
  \/ \E d \in Delays : TimePasses(d)
  \/ \E op \in RetryOps : executeWithRetry(op)
  \/ \E ans \in RateLimitAnswers, d \in ResetDelays : checkRateLimitRefreshed(ans, d)
  \/ \E ans \in ApiAnswers, d \in ResetDelays : apiCallAnswered(ans, d)
  \/ \E ans \in RateLimitAnswers, d \in ResetDelays : updateRateLimit(ans, d)
  \/ cleanupCache

SpecRateLimit == Init /\ [][NextRateLimit]_vars

\* ------------------------------------- the retry loop of executeWithRetry
\* The values callers pass for maxRetries: the default, 2 and 3 in
\* rollbackToCommit, MAX_RETRY_ATTEMPTS + 1 in deployToBranch
MaxRetryOptions == {2, MAX_RETRY_ATTEMPTS, MAX_RETRY_ATTEMPTS + 1}

\* What an invocation of apiCall can fail with: status is the HTTP status (0
\* for an error without one, such as an aborted or timed-out request),
\* rateLimitMessage whether the message includes 'rate limit', reset whether
\* the response carries x-ratelimit-reset
ApiErrors ==
  [status : {0, 403, 404, 422, 429, 500, 503}, rateLimitMessage : BOOLEAN, reset : BOOLEAN]

\* The errors a response can be: the rate-limit message and the reset header
\* come with a 403 only, and an error without status has neither
ApiFailures ==
  {e \in ApiErrors : (e.status # 403 => ~e.rateLimitMessage)
                       /\ (~e.rateLimitMessage => ~e.reset)}

\* 0.8 + Math.random() * 0.4, in thousandths: Math.random() is below 1
Jitters == {800, 1000, 1199}

\* 2^n
RECURSIVE pow2(_)
pow2(n) == IF n = 0 THEN 1 ELSE 2 * pow2(n - 1)

\* retryDelay * Math.pow(2, attempts) * (0.8 + Math.random() * 0.4), rounded down
backoff(attempts, jitter) == (RETRY_DELAY_BASE * pow2(attempts) * jitter) \div 1000

\* The catch block of the loop up to attempts++: "specific" for the error
\* with the wait time thrown on the last attempt, "throw" for the error
\* rethrown as it is, "retry" for everything that goes on to attempts++. An
\* error without status is neither >= 500 nor equal to 429
catchClass(error, attempts, limit) ==
  IF error.status = 403 /\ error.rateLimitMessage
  THEN IF error.reset /\ attempts = limit - 1 THEN "specific" ELSE "retry"
  ELSE IF error.status >= 500 THEN "retry"
  ELSE IF error.status # 429 THEN "throw"
  ELSE "retry"

\* A loop that leaves the attempt counter alone
sameAttempts(attempts) == attempts

\* attempts++
nextAttempts(attempts) == attempts + 1

\* The class of a failure as a caller would name it
failureClass(error) ==
  IF error.status = 0 THEN "network"
  ELSE IF error.status = 403 /\ error.rateLimitMessage THEN "rateLimit"
  ELSE IF error.status >= 500 THEN "server"
  ELSE IF error.status = 429 THEN "tooMany"
  ELSE "client"

\* executeWithRetry has passed its cache and rate-limit checks and enters the
\* loop with the options of its caller
enterLoop(limit, fallback) ==
  /\ loop.pc \in {"idle", "done"}
  /\ loop' = [NoLoop EXCEPT !.pc = "invoke", !.maxRetries = limit, !.fallback = fallback]
  /\ UNCHANGED <<handlerVars, wsVars, fnVars, now, ticks, cache, rateLimit, rlPending, retry,
                 stored, cleanedAt>>

\* await apiCall() returns
apiCallReturned ==
  /\ loop.pc = "invoke"
  /\ loop' = [loop EXCEPT !.invoked = loop.invoked + 1, !.failed = "none", !.pc = "done",
                          !.outcome = "result"]
  /\ UNCHANGED <<handlerVars, wsVars, fnVars, now, ticks, cache, rateLimit, rlPending, retry,
                 stored, cleanedAt>>

\* await apiCall() throws: the catch block, attempts++, and either the delay
\* before the next attempt or the end of the loop with the fallback value or
\* lastError
apiCallThrew(error, jitter) ==
  LET l == [loop EXCEPT !.invoked = loop.invoked + 1, !.failed = failureClass(error)]
      class == catchClass(error, loop.attempts, loop.maxRetries)
      attempts == nextAttempts(loop.attempts)
  IN
  /\ loop.pc = "invoke"
  /\ loop' =
       IF class # "retry" THEN [l EXCEPT !.pc = "done", !.outcome = "error"]
       ELSE IF attempts < loop.maxRetries
            THEN [l EXCEPT !.attempts = attempts, !.pc = "wait",
                           !.delay = backoff(attempts, jitter)]
            ELSE [l EXCEPT !.attempts = attempts, !.pc = "done",
                           !.outcome = IF loop.fallback THEN "fallback" ELSE "error"]
  /\ UNCHANGED <<handlerVars, wsVars, fnVars, now, ticks, cache, rateLimit, rlPending, retry,
                 stored, cleanedAt>>

\* The timer of the delay fires and the loop goes round
delayElapsed ==
  /\ loop.pc = "wait"
  /\ loop' = [loop EXCEPT !.pc = "invoke", !.failed = "none"]
  /\ UNCHANGED <<handlerVars, wsVars, fnVars, now, ticks, cache, rateLimit, rlPending, retry,
                 stored, cleanedAt>>

NextRetry ==
  \/ \E limit \in MaxRetryOptions, fallback \in BOOLEAN : enterLoop(limit, fallback)
  \/ apiCallReturned
  \/ \E error \in ApiFailures, jitter \in Jitters : apiCallThrew(error, jitter)
  \/ delayElapsed

SpecRetry == Init /\ [][NextRetry]_vars

\* Every pending step of the loop is taken: the operation answers and the
\* timer fires
SpecRetryFair == SpecRetry /\ WF_vars(NextRetry)

\* ------------------------------------------------ routing-rules parsing
\* The generators and parsers of the routing-rules file applied to contents
\* of every shape the parsers tell apart
ContentMarkers == {"blue", "green", "none", "absent"}

Contents ==
  [marker : ContentMarkers, blueUrl : BOOLEAN, greenUrl : BOOLEAN,
   bluePath : BOOLEAN, greenPath : BOOLEAN]

Generators == {"gitService", "redirectService"}
Parsers == {"gitService", "redirectService", "legacy"}

\* redirectService.generateMaintenanceRules
generateMaintenanceRules ==
  [marker |-> "none", blueUrl |-> FALSE, greenUrl |-> FALSE,
   bluePath |-> FALSE, greenPath |-> FALSE]

\* The earlier redirectService.getActiveBranch: '/blue/', then '/green/', then 'blue'
ParseActiveBranchLegacy(c) ==
  IF c.bluePath THEN "blue" ELSE IF c.greenPath THEN "green" ELSE "blue"

\* The content a switch to e commits, by the service that makes the switch
generatedBy(service, e) ==
  IF service = "gitService" THEN generateRedirectsContent(e) ELSE generateRules(e)

\* What a getActiveBranch makes of a content it has read
parsedBy(parser, c) ==
  CASE parser = "gitService" -> ParseActiveBranchGit(c)
    [] parser = "redirectService" -> ParseActiveBranchRS(c)
    [] OTHER -> ParseActiveBranchLegacy(c)

\* getFileContent returns the _redirects file found on main, whatever wrote it
getFileContent(c) ==
  /\ fileContent' = c
  /\ origin' = [by |-> IF c = generateMaintenanceRules THEN "maintenance" ELSE "other",
                env |-> "none"]
  /\ parsed' = NoParse
  /\ UNCHANGED <<handlerVars, rlVars, wsVars, now, ticks, cache, fileArray, checked>>

\* updateRedirects / updateRedirectsFile generate the content of a switch to e
generateContent(service, e) ==
  /\ fileContent' = generatedBy(service, e)
  /\ origin' = [by |-> service, env |-> e]
  /\ parsed' = NoParse
  /\ UNCHANGED <<handlerVars, rlVars, wsVars, now, ticks, cache, fileArray, checked>>

\* A getActiveBranch parses the content
parseActiveBranch(parser) ==
  /\ parsed = NoParse
  /\ parsed' = [by |-> parser, result |-> parsedBy(parser, fileContent)]
  /\ UNCHANGED <<handlerVars, rlVars, wsVars, now, ticks, cache, fileContent, origin, fileArray, checked>>

NextParse ==
  \/ \E c \in Contents : getFileContent(c)
  \/ \E service \in Generators, e \in Envs : generateContent(service, e)
  \/ \E parser \in Parsers : parseActiveBranch(parser)

SpecParse == Init /\ [][NextParse]_vars

\* ------------------------------------------------- websocketService
\* The copies of the service that keep an isAlive flag per client: the one of
\* the deployease tree and the one served on /deployease with a connection
\* timeout, subscriptions and a broadcast filter
WsImpls == {"deployease", "backend"}

\* What ws.ping or ws.send ends in
SendOutcomes == {"ok", "failed"}

\* Every step of the service other than a broadcast or an inbound message
\* leaves no broadcast and no message to show
wsStep == lastBroadcast' = NoBroadcast /\ lastMessage' = NoMessage

\* WebSocketService.init(server)
init(impl) ==
  /\ wsImpl = "none"
  /\ wsImpl' = impl
  /\ wsStep
  /\ UNCHANGED <<handlerVars, rlVars, fnVars, observer, keyed, now, ticks, cache, clients, sockets, probes>>

\* wss.on('connection'): the client is stored with isAlive: true; the backend
\* copy also arms its 30 s connection timeout
connection(c) ==
  /\ wsImpl # "none"
  /\ sockets[c] # "open" /\ ~clients[c].tracked
  /\ sockets' = [sockets EXCEPT ![c] = "open"]
  /\ clients' = [clients EXCEPT ![c] =
                   [tracked |-> TRUE, isAlive |-> TRUE, armed |-> (wsImpl = "backend")]]
  /\ probes' = [probes EXCEPT ![c] = NoProbes]
  /\ wsStep
  /\ UNCHANGED <<handlerVars, rlVars, fnVars, observer, keyed, now, ticks, cache, wsImpl>>

\* ws.on('pong'): the client answers a probe
pong(c) ==
  /\ clients[c].tracked /\ sockets[c] = "open" /\ probes[c].missed > 0
  /\ clients' = [clients EXCEPT ![c].isAlive = TRUE]
  /\ probes' = [probes EXCEPT ![c] = NoProbes]
  /\ wsStep
  /\ UNCHANGED <<handlerVars, rlVars, fnVars, observer, keyed, now, ticks, cache, wsImpl, sockets>>

\* The connection timeout of the backend copy fires: ws.terminate()
connectionTimeout(c) ==
  /\ clients[c].tracked /\ clients[c].armed
  /\ clients' = [clients EXCEPT ![c].armed = FALSE]
  /\ sockets' = [sockets EXCEPT ![c] = "closed"]
  /\ wsStep
  /\ UNCHANGED <<handlerVars, rlVars, fnVars, observer, keyed, now, ticks, cache, wsImpl, probes>>

\* The peer goes away: the socket leaves the OPEN state
socketClosed(c) ==
  /\ sockets[c] = "open"
  /\ sockets' = [sockets EXCEPT ![c] = "closed"]
  /\ wsStep
  /\ UNCHANGED <<handlerVars, rlVars, fnVars, observer, keyed, now, ticks, cache, wsImpl, clients, probes>>

\* ws.on('close'): _handleDisconnect
_handleDisconnect(c) ==
  /\ clients[c].tracked /\ sockets[c] = "closed"
  /\ clients' = [clients EXCEPT ![c] = NoClient]
  /\ wsStep
  /\ UNCHANGED <<handlerVars, rlVars, fnVars, observer, keyed, now, ticks, cache, wsImpl, sockets, probes>>

\* ws.on('error'): _handleError terminates the socket and deletes the client
_handleError(c) ==
  /\ clients[c].tracked /\ sockets[c] = "open"
  /\ clients' = [clients EXCEPT ![c] = NoClient]
  /\ sockets' = [sockets EXCEPT ![c] = "closed"]
  /\ wsStep
  /\ UNCHANGED <<handlerVars, rlVars, fnVars, observer, keyed, now, ticks, cache, wsImpl, probes>>

\* A liveness check that never gives a client up
neverUnresponsive(client) == FALSE

\* _pingClients: if (!client.isAlive)
unresponsive(client) == ~client.isAlive

\* _pingClients, the liveness tick: a client that is not alive is terminated
\* and deleted; any other is marked not alive and pinged, and terminated and
\* deleted when the ping fails. ws.ping throws only on a socket that is still
\* connecting, which a socket handed over by 'connection' never is.
_pingClients(outcomes) ==
  LET gone(c) == unresponsive(clients[c]) \/ outcomes[c] = "failed"
      seen(c) == clients[c].tracked
  IN
  /\ wsImpl # "none"
  /\ \E c \in Conns : seen(c)
  /\ \A c \in Conns : (seen(c) /\ sockets[c] # "open" /\ ~unresponsive(clients[c]))
                         => outcomes[c] = "failed"
  /\ \A c \in Conns : (~seen(c) \/ unresponsive(clients[c])) => outcomes[c] = "ok"
  /\ clients' = [c \in Conns |->
                   IF ~seen(c) THEN clients[c]
                   ELSE IF gone(c) THEN NoClient
                   ELSE [clients[c] EXCEPT !.isAlive = FALSE]]
  /\ sockets' = [c \in Conns |-> IF seen(c) /\ gone(c) THEN "closed" ELSE sockets[c]]
  /\ probes' = [c \in Conns |->
                  IF ~seen(c) THEN probes[c]
                  ELSE [idle |-> probes[c].idle + 1,
                        missed |-> IF unresponsive(clients[c]) THEN probes[c].missed
                                   ELSE probes[c].missed + 1,
                        reaped |-> unresponsive(clients[c])]]
  /\ wsStep
  /\ UNCHANGED <<handlerVars, rlVars, fnVars, observer, keyed, now, ticks, cache, wsImpl>>

\* A broadcast whose loop has no try/catch around the send
broadcastRethrows == FALSE

\* broadcast: the send to each client sits in a try/catch inside forEach
broadcastCatches == TRUE

\* broadcast, the body of forEach for client c: the deployease copy has no
\* filter parameter and sends to every client whose socket is OPEN
sendTo(c, filter, outcomes, b) ==
  IF clients[c].tracked /\ sockets[c] = "open" /\ (wsImpl = "deployease" \/ c \in filter)
  THEN IF outcomes[c] = "ok"
       THEN [b EXCEPT !.to = b.to \cup {c}, !.delivered[c] = b.delivered[c] + 1]
       ELSE [b EXCEPT !.to = b.to \cup {c}, !.failed = b.failed \cup {c},
                      !.raised = ~broadcastCatches]
  ELSE b

\* this.clients.forEach, in the order of the map
RECURSIVE forEachClient(_, _, _, _)
forEachClient(c, filter, outcomes, b) ==
  IF c > MaxConns \/ b.raised THEN b
  ELSE forEachClient(c + 1, filter, outcomes, sendTo(c, filter, outcomes, b))

\* broadcast(message, filter): filter is the set of connections the predicate accepts
broadcast(filter, outcomes) ==
  /\ wsImpl # "none"
  /\ \A c \in Conns : (~clients[c].tracked \/ sockets[c] # "open") => outcomes[c] = "ok"
  /\ lastBroadcast' = forEachClient(1, filter, outcomes,
                                    [NoBroadcast EXCEPT !.issued = TRUE, !.filter = filter])
  /\ lastMessage' = NoMessage
  /\ UNCHANGED <<handlerVars, rlVars, fnVars, observer, keyed, now, ticks, cache, wsImpl, clients, sockets, probes>>

\* The types of inbound messages; "status" stands for any type the service
\* has no case for
MessageTypes == {"subscribe", "unsubscribe", "ping", "status"}

\* The cases of the switch in _handleMessage: the deployease copy has none
\* for 'unsubscribe'
handledInternally(impl) ==
  IF impl = "backend" THEN {"subscribe", "unsubscribe", "ping"} ELSE {"subscribe", "ping"}

\* The deployease copy calls this.send, which it does not define: the call
\* throws a TypeError that the catch block of _handleMessage logs
hasSend(impl) == impl = "backend"

\* What _handleSubscribe, the ping case and _handleUnsubscribe send back
replyFor(type) ==
  CASE type = "subscribe" -> "subscription_ack"
    [] type = "ping" -> "pong"
    [] type = "unsubscribe" -> "unsubscription_ack"

\* ws.on('message'): the backend copy clears its connection timeout, then
\* _handleMessage parses the message (a subscribe carries a channel array) and
\* replies to the sender or broadcasts the message to every open client
message(c, type, outcomes) ==
  /\ clients[c].tracked /\ sockets[c] = "open"
  /\ \A d \in Conns : (~clients[d].tracked \/ sockets[d] # "open") => outcomes[d] = "ok"
  /\ type \in handledInternally(wsImpl) => \A d \in Conns : outcomes[d] = "ok"
  /\ clients' = [clients EXCEPT ![c].armed = FALSE]
  /\ IF type \in handledInternally(wsImpl)
     THEN /\ lastMessage' = [from |-> c, type |-> type,
                             reply |-> IF hasSend(wsImpl) THEN replyFor(type) ELSE "none",
                             replyTo |-> IF hasSend(wsImpl) THEN {c} ELSE {}]
          /\ lastBroadcast' = NoBroadcast
     ELSE /\ lastMessage' = [from |-> c, type |-> type, reply |-> "none", replyTo |-> {}]
          /\ lastBroadcast' = forEachClient(1, Conns, outcomes,
                                [NoBroadcast EXCEPT !.issued = TRUE, !.filter = Conns])
  /\ UNCHANGED <<handlerVars, rlVars, fnVars, observer, keyed, now, ticks, cache, wsImpl, sockets, probes>>

NextWebSocket ==
  \/ \E impl \in WsImpls : init(impl)
  \/ \E c \in Conns : connection(c)
  \/ \E c \in Conns : pong(c)
  \/ \E c \in Conns, type \in MessageTypes, outcomes \in [Conns -> SendOutcomes] :
       message(c, type, outcomes)
  \/ \E c \in Conns : connectionTimeout(c)
  \/ \E c \in Conns : socketClosed(c)
  \/ \E c \in Conns : _handleDisconnect(c)
  \/ \E c \in Conns : _handleError(c)
  \/ \E outcomes \in [Conns -> SendOutcomes] : _pingClients(outcomes)
  \/ \E filter \in SUBSET Conns, outcomes \in [Conns -> SendOutcomes] : broadcast(filter, outcomes)

SpecWebSocket == Init /\ [][NextWebSocket]_vars

\* --------------------------------------------------- request validation
\* Deploy, switch and rollback requests through gitService, with the names
\* and file arrays a caller may pass
BranchNames == {"blue", "staging"}

NextValidation ==
  \/ \E p \in SwitchProcs, b \in BranchNames, f \in Uploads : deployToBranch(p, b, f)
  \/ \E p \in SwitchProcs, t \in SwitchTargets, rl \in RateLimitChecks :
       switchEnvironment(p, t, rl)
  \/ \E p \in SwitchProcs, gh \in GitHubAnswers : switchEnvironmentRead(p, gh)
  \/ \E p \in SwitchProcs, b \in BranchNames, s \in RollbackShas : rollbackToCommit(p, b, s)
  \/ \E p \in SwitchProcs, gh \in GitHubAnswers : rollbackVerify(p, gh)
  \/ \E p \in SwitchProcs, gh \in GitHubAnswers : rollbackUpdateRef(p, gh)
  \/ CommitSteps

SpecValidation == Init /\ [][NextValidation]_vars

\* ------------------------------------------------ validateFiles alone
\* The files a caller may put into an array: site files, a file with an
\* extension outside the allow-list, Netlify special files, each below and above
\* MAX_FILE_SIZE, a site file of exactly MAX_FILE_SIZE, and an entry without content
FilePaths ==
  {RootFile("index", ".html"), RootFile("setup", ".exe"), RootFile("_redirects", ""),
   RootFile("netlify", ".toml")}

FileSizes == {1024, MAX_FILE_SIZE + 1}

FileChoices ==
  {File(path, bytes) : path \in FilePaths, bytes \in FileSizes}
    \cup {File(RootFile("index", ".html"), MAX_FILE_SIZE),
          [path |-> RootFile("index", ".html"), hasContent |-> FALSE, content |-> 0]}

\* The arrays of at most MaxFiles of these files, an array of MAX_FILES files
\* and one of MAX_FILES + 1
FileArrays ==
  UNION {[1..n -> FileChoices] : n \in 0..MaxFiles}
    \cup {[i \in 1..n |-> File([dir |-> i, name |-> "index", ext |-> ".html"], 1024)] :
            n \in {MAX_FILES, MAX_FILES + 1}}

\* A caller builds the array it is going to deploy
receiveFiles(files) ==
  /\ fileArray' = files
  /\ checked' = "none"
  /\ UNCHANGED <<handlerVars, rlVars, wsVars, now, ticks, cache, fileContent, origin, parsed>>

\* this.validateFiles(files)
validateFilesCalled ==
  /\ checked = "none"
  /\ checked' = validateFiles(fileArray)
  /\ UNCHANGED <<handlerVars, rlVars, wsVars, now, ticks, cache, fileContent, origin, parsed,
                 fileArray>>

NextFiles ==
  \/ \E files \in FileArrays : receiveFiles(files)
  \/ validateFilesCalled

SpecFiles == Init /\ [][NextFiles]_vars

\* ------------------------------------------------- concurrent switches
\* Two switchTraffic requests at a time, with GitHub and Netlify answering
\* every request: updateRedirects then finds the active branch in the cache
\* that the read of switchTraffic has just filled
NextRace ==
  \/ \E impl \in NetlifyImpls : requireNetlifyService(impl)
  \/ \E p \in Procs, t \in Envs : switchTraffic(p, t, "up")
  \/ \E p \in Procs : switchTrafficRead(p, "ok", "up")
  \/ \E p \in Procs : updateRedirectsPurged(p, "up")
  \/ \E p \in Procs : switchTrafficRespond(p)
  \/ \E p \in Procs : DeployResolve(p, "ok")
  \/ \E p \in Procs : CreateObjects(p, "ok")
  \/ \E p \in Procs : UpdateBranchRef(p, "ok")

SpecRace == Init /\ [][NextRace]_vars

\* --------------------------------------------- the observer-side clients
\* The two scripts a page can load to watch the log: websocket.js of
\* src/deployease (connectWebSocket) and the WebSocketManager class
ObserverImpls == {"connectWebSocket", "WebSocketManager"}

\* Close codes a close event can carry: 1000 after a completed closing
\* handshake that asked for it, 1006 for a connection lost or never made,
\* 1005 for a socket closed by close() without a code
NormalClosure == 1000

\* The callbacks that are still to come: close events of replaced sockets,
\* reconnect timers, and the events of the current socket
pending(o) ==
  o.closingOld + o.closingNormal + o.timers
    + (IF o.socket \in {"connecting", "open", "closing", "aborting"} THEN 1 ELSE 0)

\* getReconnectDelay
getReconnectDelay(attempt) ==
  IF baseReconnectDelay * pow2(attempt) < maxReconnectDelay
  THEN baseReconnectDelay * pow2(attempt) ELSE maxReconnectDelay

\* connectWebSocket: close() on the socket at hand, whose close event comes
\* later (none for a socket already closed), then a new socket
connectWebSocket(o) ==
  [o EXCEPT !.socket = "connecting",
            !.closingOld = @ + (IF o.socket \in {"connecting", "open", "aborting"} THEN 1 ELSE 0),
            !.closingNormal = @ + (IF o.socket = "closing" THEN 1 ELSE 0)]

\* The body of socket.onclose
onclose(o, code) ==
  IF code = NormalClosure THEN o
  ELSE IF o.reconnectAttempts < maxReconnectAttempts
       THEN [o EXCEPT !.timers = @ + 1, !.delay = getReconnectDelay(o.reconnectAttempts),
                      !.scheduledAt = o.reconnectAttempts]
       ELSE o

\* WebSocketManager.cleanup: both timers cleared, the socket closed and
\* dropped; its handlers stay bound, so its close event still reaches
\* handleClose
cleanup(o) ==
  [o EXCEPT !.connectionTimeout = FALSE,
            !.socket = "none",
            !.closingOld = @ + (IF o.socket \in {"connecting", "open"} THEN 1 ELSE 0)]

\* WebSocketManager.disconnect
disconnect(o) ==
  [cleanup(o) EXCEPT !.isManualClose = TRUE, !.connectionState = "disconnected"]

\* WebSocketManager.connect
connect(o) ==
  IF \/ o.connectionState \in {"connected", "connecting"}
     \/ o.connectionAttempts >= maxConnectionAttempts
  THEN o
  ELSE [disconnect([o EXCEPT !.connectionState = "connecting",
                             !.connectionAttempts = @ + 1])
          EXCEPT !.socket = "connecting", !.connectionTimeout = TRUE]

\* WebSocketManager.handleConnectionFailure
handleConnectionFailure(o) ==
  LET c == [cleanup(o) EXCEPT !.connectionState = "disconnected"] IN
  IF c.connectionAttempts < maxConnectionAttempts
  THEN [c EXCEPT !.timers = @ + 1, !.delay = 1000, !.scheduledAt = 0]
  ELSE c

\* WebSocketManager.handleClose
handleClose(o) ==
  [cleanup(o) EXCEPT !.connectionState = "disconnected"]

\* The state of the client: the connectionState field of the manager, the
\* state of the socket for connectWebSocket
clientState(o) ==
  IF o.impl = "WebSocketManager" THEN o.connectionState
  ELSE IF o.socket = "connecting" THEN "connecting"
  ELSE IF o.socket = "open" THEN "connected"
  ELSE "disconnected"

\* The page runs its script: connectWebSocket() at the end of websocket.js,
\* or the constructor of the manager and connect() on DOMContentLoaded
load(impl) ==
  /\ observer.impl = "none"
  /\ observer' = IF impl = "connectWebSocket"
                 THEN connectWebSocket([NoObserver EXCEPT !.impl = impl])
                 ELSE connect([NoObserver EXCEPT !.impl = impl])
  /\ UNCHANGED <<handlerVars, rlVars, fnVars, now, ticks, cache, wsImpl, clients, sockets,
                 probes, lastBroadcast, lastMessage, keyed>>

\* The open event: socket.onopen, handleOpen
opened ==
  /\ observer.impl # "none" /\ observer.socket = "connecting"
  /\ observer' =
       IF observer.impl = "connectWebSocket"
       THEN [observer EXCEPT !.socket = "open", !.reconnectAttempts = 0]
       ELSE [observer EXCEPT !.socket = "open", !.connectionTimeout = FALSE,
                             !.connectionState = "connected"]
  /\ UNCHANGED <<handlerVars, rlVars, fnVars, now, ticks, cache, wsImpl, clients, sockets,
                 probes, lastBroadcast, lastMessage, keyed>>

\* The close event of the socket at hand: the server closed it or the
\* connection was lost (1000 needs a closing handshake, so an open socket),
\* or the close the page asked for has completed
closed(code) ==
  /\ observer.impl # "none"
  /\ observer.socket \in {"connecting", "open", "closing", "aborting"}
  /\ code = NormalClosure => observer.socket \in {"open", "closing"}
  /\ LET o == [observer EXCEPT !.stopped = @ \/ code = NormalClosure] IN
     observer' =
       IF observer.impl = "connectWebSocket"
       THEN onclose([o EXCEPT !.socket = "closed"], code)
       ELSE handleClose(o)
  /\ UNCHANGED <<handlerVars, rlVars, fnVars, now, ticks, cache, wsImpl, clients, sockets,
                 probes, lastBroadcast, lastMessage, keyed>>

\* The close event of a socket that has been replaced or dropped: the handlers
\* bound to it still run
closedOld(code) ==
  /\ observer.impl # "none"
  /\ IF code = NormalClosure THEN observer.closingNormal > 0
     ELSE observer.closingOld + observer.closingNormal > 0
  /\ LET o == IF code = NormalClosure \/ observer.closingOld = 0
              THEN [observer EXCEPT !.closingNormal = @ - 1]
              ELSE [observer EXCEPT !.closingOld = @ - 1]
     IN observer' =
          IF observer.impl = "connectWebSocket" THEN onclose(o, code) ELSE handleClose(o)
  /\ UNCHANGED <<handlerVars, rlVars, fnVars, now, ticks, cache, wsImpl, clients, sockets,
                 probes, lastBroadcast, lastMessage, keyed>>

\* The error event of the manager's socket: handleError
handleSocketError ==
  /\ observer.impl = "WebSocketManager" /\ observer.socket \in {"connecting", "open"}
  /\ observer' = handleConnectionFailure(observer)
  /\ UNCHANGED <<handlerVars, rlVars, fnVars, now, ticks, cache, wsImpl, clients, sockets,
                 probes, lastBroadcast, lastMessage, keyed>>

\* The 10 s connection timeout of the manager fires
connectionTimeoutFired ==
  /\ observer.impl = "WebSocketManager" /\ observer.connectionTimeout
  /\ observer' =
       LET o == [observer EXCEPT !.connectionTimeout = FALSE] IN
       IF o.connectionState # "connected" THEN handleConnectionFailure(o) ELSE o
  /\ UNCHANGED <<handlerVars, rlVars, fnVars, now, ticks, cache, wsImpl, clients, sockets,
                 probes, lastBroadcast, lastMessage, keyed>>

\* A reconnect timer fires: reconnectAttempts++ and connectWebSocket(), or
\* connect() of the manager. No handler clears these timers
reconnectTimerFired ==
  /\ observer.impl # "none" /\ observer.timers > 0
  /\ LET o == [observer EXCEPT !.timers = @ - 1, !.lateAttempt = @ \/ observer.stopped] IN
     observer' =
       IF observer.impl = "connectWebSocket"
       THEN connectWebSocket([o EXCEPT !.reconnectAttempts = @ + 1])
       ELSE connect(o)
  /\ UNCHANGED <<handlerVars, rlVars, fnVars, now, ticks, cache, wsImpl, clients, sockets,
                 probes, lastBroadcast, lastMessage, keyed>>

\* reconnect() of websocket.js, called by the page
reconnect ==
  /\ observer.impl = "connectWebSocket"
  /\ pending(observer) < MaxPending
  /\ observer' =
       connectWebSocket([observer EXCEPT
         !.reconnectAttempts = IF @ >= maxReconnectAttempts THEN 0 ELSE @,
         !.stopped = FALSE])
  /\ UNCHANGED <<handlerVars, rlVars, fnVars, now, ticks, cache, wsImpl, clients, sockets,
                 probes, lastBroadcast, lastMessage, keyed>>

\* The beforeunload handlers: socket.close(1000, ...) in websocket.js,
\* disconnect() of the manager. The event also fires for a navigation that
\* does not leave the page
beforeunload ==
  /\ observer.impl # "none" /\ ~observer.stopped
  /\ observer' =
       IF observer.impl = "connectWebSocket"
       THEN [observer EXCEPT !.stopped = TRUE,
                             !.socket = IF @ = "open" THEN "closing"
                                        ELSE IF @ = "connecting" THEN "aborting" ELSE @]
       ELSE [disconnect(observer) EXCEPT !.stopped = TRUE]
  /\ UNCHANGED <<handlerVars, rlVars, fnVars, now, ticks, cache, wsImpl, clients, sockets,
                 probes, lastBroadcast, lastMessage, keyed>>

NextObserver ==
  \/ \E impl \in ObserverImpls : load(impl)
  \/ opened
  \/ \E code \in {NormalClosure, 1006} : closed(code)
  \/ \E code \in {NormalClosure, 1005} : closedOld(code)
  \/ handleSocketError
  \/ connectionTimeoutFired
  \/ reconnectTimerFired
  \/ reconnect
  \/ beforeunload

SpecObserver == Init /\ [][NextObserver]_vars

\* ---------------------- getActiveBranch reads that overlap a switch
\* GitHub answers the GET of _redirects issued by gitService.getActiveBranch
\* with the file as it is on main at that moment; the answer is on its way
getActiveBranchFetched(p) ==
  LET c == calls[p] IN
  /\ c.op = "getActiveGit" /\ c.pc = "ga_read"
  /\ Settle(p, [c EXCEPT !.cur = ParseActiveBranchGit(MainRules), !.pc = "ga_store"])
  /\ UNCHANGED <<rlVars, wsVars, fnVars, now, ticks, netlifyImpl, commits, refs, cache,
                 redirectCache, lastSwitch, lastRollback>>

\* The answer arrives: the callback parses it and executeWithRetry stores the
\* result under 'active-branch'
getActiveBranchStored(p) ==
  LET c == calls[p] IN
  /\ c.op = "getActiveGit" /\ c.pc = "ga_store"
  /\ cache' = [cache EXCEPT !.active =
                 [has |-> TRUE, data |-> c.cur, expires |-> now + ACTIVE_BRANCH_TTL,
                  parsed |-> TRUE]]
  /\ Settle(p, [c EXCEPT !.resp = "value", !.pc = "done"])
  /\ UNCHANGED <<rlVars, wsVars, fnVars, now, ticks, netlifyImpl, commits, refs,
                 redirectCache, lastSwitch, lastRollback>>

\* Switches and reads of several requests, the remote services answering
NextOverlap ==
  \/ \E p \in Procs, t \in Envs : switchEnvironment(p, t, "pass")
  \/ \E p \in Procs : switchEnvironmentRead(p, "ok")
  \/ \E p \in Procs : getActiveBranch(p, "pass")
  \/ \E p \in Procs : getActiveBranchFetched(p)
  \/ \E p \in Procs : getActiveBranchStored(p)
  \/ \E p \in Procs : DeployResolve(p, "ok")
  \/ \E p \in Procs : CreateObjects(p, "ok")
  \/ \E p \in Procs : UpdateBranchRef(p, "ok")

SpecOverlap == Init /\ [][NextOverlap]_vars

\* ------------------------------------- the two readers after a switch
\* What redirectService.getActiveBranch answers in this state when GitHub
\* answers its read
activeBranchRS ==
  IF RSCacheFresh THEN redirectCache.activeBranch ELSE ParseActiveBranchRS(MainRules)

\* Switches through environmentController.switchTraffic and reads through
\* both services, one request at a time, the remote services answering
NextReaders ==
  \/ \E impl \in NetlifyImpls : requireNetlifyService(impl)
  \/ Tick
  \/ \E p \in SwitchProcs, t \in Envs : switchTraffic(p, t, "up")
  \/ \E p \in SwitchProcs : switchTrafficRead(p, "ok", "up")
  \/ \E p \in SwitchProcs : updateRedirectsPurged(p, "up")
  \/ \E p \in SwitchProcs : switchTrafficRespond(p)
  \/ \E p \in SwitchProcs : getActiveBranchRS(p)
  \/ \E p \in SwitchProcs : getActiveBranchRSRead(p, "ok")
  \/ \E p \in SwitchProcs : getActiveBranch(p, "pass")
  \/ \E p \in SwitchProcs : getActiveBranchRead(p, "ok")
  \/ \E p \in SwitchProcs : DeployResolve(p, "ok")
  \/ \E p \in SwitchProcs : CreateObjects(p, "ok")
  \/ \E p \in SwitchProcs : UpdateBranchRef(p, "ok")

SpecReaders == Init /\ [][NextReaders]_vars

\* ------------------------------ the clients map and its keys
\* _generateClientId: the sec-websocket-key header of the upgrade request, a
\* value the client chooses
_generateClientId(key) == key

\* wss.on('connection') for a connection that presents key: this.clients.set
connectionWithKey(c, key) ==
  LET clientId == _generateClientId(key) IN
  /\ wsImpl # "none"
  /\ keyed.socket[c] = "none"
  /\ keyed' = [keyed EXCEPT !.socket[c] = "open", !.key[c] = clientId,
                            !.clients[clientId] = [conn |-> c, isAlive |-> TRUE],
                            !.raised = FALSE]
  /\ UNCHANGED <<handlerVars, rlVars, fnVars, observer, now, ticks, cache, wsImpl, clients,
                 sockets, probes, lastBroadcast, lastMessage>>

\* ws.on('close') of connection c: _handleDisconnect(clientId) deletes the
\* entry under the id, whichever connection it holds
closeWithKey(c) ==
  /\ keyed.socket[c] \in {"open", "closed"}
  /\ keyed' = [keyed EXCEPT !.socket[c] = "none", !.key[c] = "none",
                            !.clients[keyed.key[c]] = [conn |-> 0, isAlive |-> FALSE],
                            !.raised = FALSE]
  /\ UNCHANGED <<handlerVars, rlVars, fnVars, observer, now, ticks, cache, wsImpl, clients,
                 sockets, probes, lastBroadcast, lastMessage>>

\* ws.on('error') of connection c: _handleError(clientId) terminates the
\* socket of the entry under the id and deletes the entry
errorWithKey(c) ==
  LET entry == keyed.clients[keyed.key[c]] IN
  /\ keyed.socket[c] = "open"
  /\ keyed' = IF entry.conn = 0 THEN [keyed EXCEPT !.raised = FALSE]
              ELSE [keyed EXCEPT !.socket[entry.conn] = "closed",
                                 !.clients[keyed.key[c]] = [conn |-> 0, isAlive |-> FALSE],
                                 !.raised = FALSE]
  /\ UNCHANGED <<handlerVars, rlVars, fnVars, observer, now, ticks, cache, wsImpl, clients,
                 sockets, probes, lastBroadcast, lastMessage>>

\* ws.on('pong') and ws.on('message') of connection c:
\* this.clients.get(clientId).isAlive = true, or .lastActivity = new Date();
\* without an entry under the id the property access throws a TypeError
eventWithKey(c) ==
  LET entry == keyed.clients[keyed.key[c]] IN
  /\ keyed.socket[c] = "open"
  /\ keyed' = IF entry.conn = 0 THEN [keyed EXCEPT !.raised = TRUE]
              ELSE [keyed EXCEPT !.clients[keyed.key[c]].isAlive = TRUE, !.raised = FALSE]
  /\ UNCHANGED <<handlerVars, rlVars, fnVars, observer, now, ticks, cache, wsImpl, clients,
                 sockets, probes, lastBroadcast, lastMessage>>

\* _pingClients over the map: an entry that is not alive has its socket
\* terminated and is deleted, any other is marked not alive and pinged
pingWithKey ==
  /\ wsImpl # "none"
  /\ \E k \in Keys : keyed.clients[k].conn # 0
  /\ keyed' =
       [keyed EXCEPT
          !.socket = [c \in Conns |->
                        IF \E k \in Keys : keyed.clients[k].conn = c /\ ~keyed.clients[k].isAlive
                        THEN "closed" ELSE keyed.socket[c]],
          !.clients = [k \in Keys |->
                         IF keyed.clients[k].conn # 0 /\ keyed.clients[k].isAlive
                         THEN [keyed.clients[k] EXCEPT !.isAlive = FALSE]
                         ELSE [conn |-> 0, isAlive |-> FALSE]],
          !.raised = FALSE]
  /\ UNCHANGED <<handlerVars, rlVars, fnVars, observer, now, ticks, cache, wsImpl, clients,
                 sockets, probes, lastBroadcast, lastMessage>>

NextKeyed ==
  \/ \E impl \in WsImpls : init(impl)
  \/ \E c \in Conns, key \in Keys : connectionWithKey(c, key)
  \/ \E c \in Conns : closeWithKey(c)
  \/ \E c \in Conns : errorWithKey(c)
  \/ \E c \in Conns : eventWithKey(c)
  \/ pingWithKey

SpecKeyed == Init /\ [][NextKeyed]_vars

\* -------------------------------- rollbacks with two environments
\* Deployments to both environments and rollbacks of either, one request at
\* a time, GitHub answering every request
NextRollbackAcross ==
  \/ \E p \in SwitchProcs, b \in Envs, f \in FileSets : deployToBranch(p, b, f)
  \/ \E p \in SwitchProcs, b \in Envs, s \in RollbackShas : rollbackToCommit(p, b, s)
  \/ \E p \in SwitchProcs : rollbackVerify(p, "ok")
  \/ \E p \in SwitchProcs : rollbackUpdateRef(p, "ok")
  \/ \E p \in SwitchProcs : DeployResolve(p, "ok")
  \/ \E p \in SwitchProcs : CreateObjects(p, "ok")
  \/ \E p \in SwitchProcs : UpdateBranchRef(p, "ok")

SpecRollbackAcross == Init /\ [][NextRollbackAcross]_vars

\* ------------------------------------------------------------ properties
SwitchOps == {"switchTraffic", "switchEnv"}

\* C1: a switch whose target is the environment the committed marker already
\* names answers "no change" and issues no remote write (no object, no
\* reference update, no purge, no deploy trigger)
C1_SwitchNoOp ==
  (done.op \in SwitchOps /\ done.target \in Envs /\ done.marker0 = done.target)
    => (done.resp = "nochange" /\ ~done.wrote /\ done.applied = 0)

\* C2: the getActive call that follows a successful switch to T returns T
C2_SwitchVisible ==
  (done.op \in {"getActiveRS", "getActiveGit"} /\ done.after \in Envs)
    => done.cur = done.after

\* C3: when the routing commit is applied and the purge fails, the switch
\* reports success with changed = true and the commit stays
C3_PurgeFailureIsSuccess ==
  (done.op = "switchTraffic" /\ done.applied > 0 /\ done.purgeRes \in {"reject", "failed"})
    => (done.resp = "changed" /\ CommittedMarker = done.target)

\* C4: a switch never reports failure after its routing commit was applied,
\* and never reports a change without a commit applied
C4_ReportMatchesCommit ==
  (done.op \in SwitchOps /\ done.target \in Envs)
    => /\ done.resp = "fail" => done.applied = 0
       /\ done.resp = "changed" => (done.applied > 0 /\ CommittedMarker = done.target)

\* C5: when the routing commit fails, switchTraffic reports failure, the
\* committed marker is the one from before the call, the call has not put
\* the target into the local cache, and nothing is broadcast
C5_CommitFailureAborts ==
  (done.op = "switchTraffic" /\ done.urRes = "fail" /\ done.applied = 0)
    => /\ done.resp = "fail"
       /\ ~done.bcast
       /\ ~done.cacheSet
       /\ CommittedMarker = done.marker0

C5_Witness ==
  /\ done.op = "switchTraffic" /\ done.urRes = "fail" /\ done.applied = 0
  /\ done.attempt = maxRetries
  /\ done.resp = "fail"

\* C6: the results cached for one (environment, files) pair within the dedup
\* window all name the commit the deploy that just ended returned
C6_IdempotentDeploy ==
  (done.op = "deployToBranch" /\ done.resp = "ok")
    => \A e \in cache.deploys :
         (e.branch = done.branch /\ e.files = done.files /\ now < e.t + CACHE_TTL)
           => e.sha = done.sha

\* C7: a createCommit moves the branch only when the tip it resolved is still
\* the tip, and the one whose update is rejected ends in an error with
\* nothing applied
C7_UpdateFromResolvedTip ==
  [][\A p \in Procs :
       (calls[p].pc = "d_ref" /\ refs'[calls[p].branch] # refs[calls[p].branch])
         => (refs'[calls[p].branch] = calls[p].newc => refs[calls[p].branch] = calls[p].base)]_vars

C7_ConflictReported ==
  (done.op = "deployToBranch" /\ done.failedAt = "conflict")
    => (done.resp = "fail" /\ done.applied = 0 /\ refs[done.branch] # done.newc)

C7_AtMostOneUpdate ==
  []C7_ConflictReported /\ C7_UpdateFromResolvedTip

C7_Witness ==
  /\ done.op = "deployToBranch" /\ done.failedAt = "conflict"
  /\ commits[refs[done.branch]].parent = done.base

C9_RollbackEnds ==
  (done.op = "rollbackToCommit")
    => /\ done.resp = "ok" =>
            (done.verified /\ done.sha \in 1..Len(commits) /\ refs[done.branch] = done.sha)
       /\ done.failedAt = "verify" => (done.resp = "fail" /\ done.applied = 0)

C9_RollbackSteps ==
  [][\A p \in Procs :
       (calls[p].op = "rollbackToCommit" /\ calls'[p] # calls[p])
         => /\ commits' = commits
            /\ refs' # refs => (calls[p].verified /\ calls[p].pc = "rb_update")]_vars

C9_VerifiedRollback ==
  []C9_RollbackEnds /\ C9_RollbackSteps

C9_Witness ==
  /\ done.op = "rollbackToCommit" /\ done.resp = "ok"
  /\ refs[done.branch] = done.sha
  /\ \E c \in 1..Len(commits) : commits[c].parent = done.sha

\* C10: after a rollback of an environment to C0 the branch is at C0, and a
\* deployment history asked for afterwards lists only C0 and its ancestors
C10_HistoryAfterRollback ==
  /\ (done.op = "rollbackToCommit" /\ done.resp = "ok") => refs[done.branch] = done.sha
  /\ (done.op = "getDeploymentHistory" /\ done.since # 0)
       => \A c \in SeqToSet(done.hist) : IsAncestor(c, done.since)

\* C11: an executeWithRetry call that found the quota exhausted, and could not
\* answer from an unexpired cache entry, ends with cached data marked stale or
\* with a rate-limit error whose wait time is positive; never with a default
C11_RateLimitSurfaced ==
  (retry.pc = "done" /\ retry.limited /\ retry.kind # "cacheHit")
    => \/ retry.kind = "expiredCache" /\ retry.stale
       \/ retry.kind = "error" /\ retry.wait > 0

\* C12: a call started while the recorded state says remaining < 10 before the
\* reset time sends no request to the remote API, the quota refresh included
C12_PreflightSendsNothing ==
  retry.limited0 => retry.sent = 0

\* C13: a call answered from the cache while no rate limiting is detected gets
\* an entry whose store time + TTL has not passed, and an entry served past
\* it is marked stale
C13_NoExpiredRead ==
  (retry.pc = "done" /\ retry.kind \in {"cacheHit", "expiredCache"})
    => /\ ~retry.limited => ~retry.expired
       /\ retry.expired => retry.stale

\* C26: a failed invocation with attempts left is followed by a retry exactly
\* when the failure is a rate-limit response, a server error, a 429 or an
\* error without HTTP status; any other failure ends the call in an error
C26_RetryClasses ==
  (loop.failed # "none" /\ loop.invoked < loop.maxRetries)
    => /\ loop.pc = "wait" <=> loop.failed \in {"rateLimit", "server", "tooMany", "network"}
       /\ loop.failed = "client" => (loop.pc = "done" /\ loop.outcome = "error")

\* C27: the loop invokes the operation at most maxRetries times, the delay
\* before retry k lies between 0.8 and 1.2 times RETRY_DELAY_BASE * 2^k and
\* below the value for the last retry, a finished call has a result, the
\* fallback value or an error, and every call that entered the loop finishes
C27_LoopBounded ==
  /\ loop.invoked <= loop.maxRetries
  /\ loop.pc = "invoke" => loop.attempts < loop.maxRetries
  /\ loop.pc = "wait"
       => /\ loop.attempts = loop.invoked /\ loop.attempts >= 1
          /\ 10 * loop.delay >= 8 * RETRY_DELAY_BASE * pow2(loop.attempts)
          /\ 10 * loop.delay <= 12 * RETRY_DELAY_BASE * pow2(loop.attempts)
          /\ 10 * loop.delay <= 12 * RETRY_DELAY_BASE * pow2(loop.maxRetries - 1)
  /\ loop.pc = "done"
       => /\ loop.outcome \in {"result", "fallback", "error"}
          /\ loop.outcome = "fallback" => loop.fallback

C28_CleanupFrame ==
  [][cleanedAt' # cleanedAt
       => LET limited == rateLimit.remaining < RATE_LIMIT_THRESHOLD
                           /\ rateLimit.reset * 1000 > now
              framed(before, after) ==
                IF limited
                THEN IF before.has
                     THEN /\ after.has /\ after.data = before.data
                          /\ after.expires >= now + CACHE_TTL_EXTENDED
                     ELSE after = before
                ELSE IF before.has /\ before.expires < now
                     THEN ~after.has
                     ELSE after = before
          IN /\ framed(cache.active, cache'.active)
             /\ \A b \in Envs : framed(cache.history[b], cache'.history[b])
             /\ now' = now /\ rateLimit' = rateLimit]_vars

C28_Witness ==
  /\ now > 0 /\ cleanedAt = now
  /\ rateLimit.remaining < RATE_LIMIT_THRESHOLD /\ rateLimit.reset * 1000 > now
  /\ cache.active.has /\ cache.active.expires = now + CACHE_TTL_EXTENDED
  /\ \E b \in Envs : cache.history[b].has /\ cache.history[b].expires = now + CACHE_TTL_EXTENDED

\* C14: getActive returns the environment the marker names when there is one,
\* scans for the per-environment substrings only when the marker is absent,
\* and returns none when blue or green is not identified uniquely
C14_MarkerFirst ==
  LET blueSeen == fileContent.blueUrl \/ fileContent.bluePath
      greenSeen == fileContent.greenUrl \/ fileContent.greenPath
      expected == IF fileContent.marker \in Envs THEN fileContent.marker
                  ELSE IF fileContent.marker = "none" THEN "none"
                  ELSE IF blueSeen /\ ~greenSeen THEN "blue"
                  ELSE IF greenSeen /\ ~blueSeen THEN "green"
                  ELSE "none"
  IN parsed # NoParse => parsed.result = expected

C17_OneMissTolerated ==
  \A c \in Conns : probes[c].reaped => probes[c].missed >= 2

\* C18: a broadcast does not raise, and every open connection the filter
\* accepts and whose send did not fail gets the message exactly once, whatever
\* happened to the sends before it
C18_BroadcastIsolatesFailures ==
  lastBroadcast.issued
    => /\ ~lastBroadcast.raised
       /\ \A c \in Conns :
            /\ lastBroadcast.delivered[c] <= 1
            /\ (clients[c].tracked /\ sockets[c] = "open" /\ c \in lastBroadcast.filter
                  /\ c \notin lastBroadcast.failed)
                 => lastBroadcast.delivered[c] = 1

C18_Witness ==
  /\ lastBroadcast.issued
  /\ \E c, d \in Conns :
       c < d /\ c \in lastBroadcast.failed /\ d \in lastBroadcast.filter
         /\ lastBroadcast.delivered[d] = 1

\* C19: a connection to which a broadcast failed to deliver is out of the
\* client map when that broadcast returns
C19_FailedDeliveryRemoved ==
  lastBroadcast.issued
    => \A c \in lastBroadcast.failed : ~clients[c].tracked

\* C25: an inbound subscribe, unsubscribe or ping is answered with its
\* acknowledgement to the sender alone and nothing is broadcast; a message of
\* any other type is broadcast to every open connection
C25_InboundMessages ==
  lastMessage # NoMessage
    => IF lastMessage.type \in {"subscribe", "unsubscribe", "ping"}
       THEN /\ lastMessage.reply = replyFor(lastMessage.type)
            /\ lastMessage.replyTo = {lastMessage.from}
            /\ ~lastBroadcast.issued
       ELSE /\ lastBroadcast.issued
            /\ lastBroadcast.to = {c \in Conns : clients[c].tracked /\ sockets[c] = "open"}

\* C36: every connection whose socket is open has, under its id, the entry
\* that was registered for it: no other connection has overwritten or
\* removed it
C36_RecordsKeyedUniquely ==
  \A c \in Conns :
    keyed.socket[c] = "open" => keyed.clients[keyed.key[c]].conn = c

\* C37: no pong or message handler raises an error
C37_NoDanglingRecord ==
  ~keyed.raised

\* C38: a connection that has answered every probe is not terminated by the
\* connection timeout and not given up by the liveness check
C38_ResponsiveKept ==
  [][\A c \in Conns :
       (sockets[c] = "open" /\ sockets'[c] = "closed" /\ probes[c].missed = 0)
         => /\ ~(clients[c].armed /\ clients'[c].tracked /\ ~clients'[c].armed)
            /\ ~(probes'[c].idle = probes[c].idle + 1 /\ probes'[c].reaped)]_vars

\* C20: a deploy, switch or rollback request with an invalid environment name
\* or an invalid file array (empty, more than 100 entries, a duplicate path, an
\* extension outside the allow-list on a file that is not a routing-rule
\* file, content over 5 MB) never waits for a remote answer and ends failed,
\* having written nothing
C20_RejectedBeforeRemote ==
  LET badFiles(upload) ==
        LET files == filesOf(upload) IN
        \/ Len(files) = 0
        \/ Len(files) > MAX_FILES
        \/ \E i, j \in 1..Len(files) : i # j /\ files[i].path = files[j].path
        \/ \E i \in 1..Len(files) :
             \/ files[i].path \notin NETLIFY_SPECIAL_FILES
                  /\ files[i].path.ext \notin VALID_FILE_EXTENSIONS
             \/ files[i].content > MAX_FILE_SIZE
      invalid(c) ==
        \/ c.op = "deployToBranch" /\ (c.branch \notin DEFAULT_BRANCHES \/ badFiles(c.files))
        \/ c.op = "switchEnv" /\ c.target \notin Envs
        \/ c.op = "rollbackToCommit" /\ c.branch \notin Envs
  IN /\ \A p \in Procs : ~invalid(calls[p])
     /\ invalid(done) => (done.resp = "fail" /\ ~done.wrote /\ done.applied = 0)

\* C21: validateFiles accepts an array of well-formed files exactly when it is
\* not empty, has at most 100 entries, no path twice, no content over 5 MB, and
\* no extension outside the allow-list except on the routing-rule files
\* _redirects, _headers and netlify.toml, which are exempt from the extension
\* check only
C21_AcceptsExactlyValid ==
  LET n == Len(fileArray)
      acceptable ==
        /\ n > 0 /\ n <= MAX_FILES
        /\ \A i, j \in 1..n : i # j => fileArray[i].path # fileArray[j].path
        /\ \A i \in 1..n :
             /\ fileArray[i].content <= MAX_FILE_SIZE
             /\ fileArray[i].path \in NETLIFY_SPECIAL_FILES
                  \/ fileArray[i].path.ext \in VALID_FILE_EXTENSIONS
  IN (checked # "none" /\ \A i \in 1..n : fileArray[i].hasContent)
       => (checked = "ok" <=> acceptable)

\* C22: the error of a deploy whose reference update was rejected because the
\* branch had moved differs, in what the caller of deployToBranch can look at,
\* from the error of a deploy that failed at any other step
C22_ConflictDistinct ==
  (done.op = "deployToBranch" /\ done.failedAt = "conflict")
    => \A where \in {"resolve", "blob", "tree", "commit", "ref"} :
         done.error # deployError(where)

\* C23: within a switchTraffic call no purge request is issued before the
\* reference update on main of that call has succeeded, and the
\* environment_switch broadcast is made only after the purge step has finished
C23_CommitPurgeBroadcast ==
  \A c \in {calls[p] : p \in Procs} \cup {done} :
    c.op = "switchTraffic"
      => /\ c.purgeRes # "none" => c.applied > 0
         /\ c.bcast => (c.purgeRes # "none" /\ c.pc \notin {"ur_purge", "d_ref"})

\* C24: switch calls are serialized: no switchTraffic call reads the active
\* environment while another one has read it and has not completed, so at no
\* time two calls are both past their read and still running
C24_SwitchesSerialized ==
  \A p, q \in Procs :
    (p # q /\ calls[p].op = "switchTraffic" /\ calls[q].op = "switchTraffic")
      => (calls[p].pc = "st_read" \/ calls[q].pc = "st_read")

\* C30: when a switch answers "no change" for target T, the marker committed
\* on main at that moment names T
C30_NoOpSound ==
  (done.op \in SwitchOps /\ done.target \in Envs /\ done.resp = "nochange")
    => CommittedMarker = done.target

\* C33: with every switch call completed, the active branch in the cache of
\* the redirect service is the one the marker on main names
C33_CacheFollowsCommits ==
  (\A p \in Procs : calls[p].op = "idle")
    => (RSCacheFresh => redirectCache.activeBranch = CommittedMarker)

\* C34: a switchTraffic call that changes main creates one routing commit
C34_OneRoutingCommit ==
  \A c \in {calls[p] : p \in Procs} \cup {done} :
    c.op = "switchTraffic" => c.applied <= 1


\* C29: the client becomes connected only from connecting, its retry counter
\* never exceeds the maximum, the delay of connectWebSocket before attempt k
\* is min(3000 * 2^k, 30000), and after a normal closure or a manual
\* disconnect no reconnect timer makes a connection attempt
C29_CounterBounded ==
  /\ observer.reconnectAttempts <= maxReconnectAttempts
  /\ observer.connectionAttempts <= maxConnectionAttempts
  /\ (observer.impl = "connectWebSocket" /\ observer.timers > 0)
       => \/ observer.delay = baseReconnectDelay * pow2(observer.scheduledAt)
          \/ (observer.delay = maxReconnectDelay
                /\ baseReconnectDelay * pow2(observer.scheduledAt) >= maxReconnectDelay)

C29_NoAttemptAfterStop ==
  ~observer.lateAttempt

C29_StateMachine ==
  [][(clientState(observer') = "connected" /\ clientState(observer) # "connected")
       => clientState(observer) = "connecting"]_vars

C29_ClientReconnect ==
  /\ []C29_CounterBounded
  /\ []C29_NoAttemptAfterStop
  /\ C29_StateMachine

\* C40: in the observer client of websocket.js a reconnect timer is
\* scheduled only by the close event of the socket at hand, with a code other
\* than a normal closure: the close event of a socket that connectWebSocket
\* has replaced schedules none
C40_TimerOnlyForCurrentSocket ==
  [][(observer.impl = "connectWebSocket" /\ observer'.timers > observer.timers)
       => /\ observer.socket \in {"connecting", "open", "closing", "aborting"}
          /\ observer'.socket = "closed"
          /\ observer'.closingOld = observer.closingOld
          /\ observer'.closingNormal = observer.closingNormal]_vars


\* C31: the 'active-branch' cache entry holds a branch that was parsed from
\* a routing-rules file that was read, never the default a failed read gives
C31_CacheHoldsParsed ==
  cache.active.has => cache.active.parsed

\* C32: with no switch and no read in progress, the 'active-branch' cache
\* entry is absent or expired, or holds the branch the marker on main names
C32_NoStaleReadCached ==
  (\A p \in Procs : calls[p].op = "idle")
    => (ActiveCacheFresh => cache.active.data = CommittedMarker)

\* C35: a gitService.getActiveBranch call made after a completed switchTraffic
\* returns what redirectService.getActiveBranch returns
C35_ReadersAgree ==
  (done.op = "getActiveGit" /\ done.after \in Envs) => done.cur = activeBranchRS


\* C39: the branch reference moves in rollbackToCommit only to a commit in
\* the history of that branch
C39_RollbackWithinBranch ==
  [][\A p \in Procs :
       (calls[p].op = "rollbackToCommit" /\ calls[p].pc = "rb_update"
          /\ refs'[calls[p].branch] # refs[calls[p].branch])
         => IsAncestor(calls[p].sha, refs[calls[p].branch])]_vars

====
